---- MODULE Spec2Model ----
(***************************************************************************)
(* dock-ops web front-end: the billing-override display of the super-admin *)
(* org editor, the role/entitlement-gated pages and their queries, the     *)
(* plan classification of the billing page, and organization creation     *)
(* with duplicate handling.                                                *)
(*                                                                         *)
(* Conventions.  A JS value that is null or undefined is Null (-1) when it *)
(* is a number (every real number in the model is >= 0), NoPlan when it is *)
(* a plan identifier, and the empty sequence <<>> when it is an object (a  *)
(* present object o is <<o>>).  An ISO timestamp is modelled by the clock  *)
(* instant it denotes.  A text is a sequence of characters.                *)
(***************************************************************************)
EXTENDS Integers, Sequences, FiniteSets, TLC

VARIABLES
  \* ---- super-admin org editor / org billing view
  now,             \* the browser clock, what `new Date()` returns
  org,             \* one organization of the search-orgs result
  row,             \* the table row last rendered for org (<<>> before)
  orgBilling,      \* OrgBillingPage: data of the org-billing query
  orgBillingView   \* OrgBillingPage: what is rendered from orgBilling

overrideVars == <<now, org, row, orgBilling, orgBillingView>>

VARIABLES
  \* ---- identity, organization selection, gated pages and their queries
  isLoaded,        \* useUser().isLoaded: the identity adapter has resolved
  isSignedIn,      \* useUser().isSignedIn (FALSE also while undefined)
  user,            \* what GET /me answers for the visitor
  meStatus,        \* ["me"] query: "pending", "success" or "error"
  meFetching,      \* ["me"] query: a fetch is in flight
  meFailureCount,  \* ["me"] query: failed attempts of the running fetch
  meRetry,         \* ["me"] query: `retry` of the fetch last started
  meData,          \* ["me"] query: data (<<>> while undefined)
  orgId,           \* useOrg().orgId
  page,            \* the mounted page
  view,            \* what the mounted page last rendered
  inflight,        \* per data query of the mounted page: <<>> or the
                   \* <<state it was issued in>> while it is in flight
  billing          \* ["billing-status"] query: data (<<>> while undefined)

gateVars == <<isLoaded, isSignedIn, user, meStatus, meFetching, meFailureCount,
              meRetry, meData, orgId, page, view, inflight, billing>>

VARIABLES
  \* ---- billing page: plans and checkout
  checkout,        \* checkoutMutation: its status and its variables
  cards,           \* the plan cards last rendered (<<>> before)
  \* ---- onboarding page: organization creation
  orgName,         \* the organization-name input
  pendingOrgName,  \* the name shown by the duplicate-confirmation dialog
  duplicateConfirmOpen,
  createOrg,       \* createOrgMutation: its status, variables and error
  createOrgRequest, \* createOrgRequestMutation: its status and variables
  lastToast        \* the toast the last handler showed ("" if none)

planVars == <<checkout, cards>>

onboardingVars == <<orgName, pendingOrgName, duplicateConfirmOpen, createOrg,
                    createOrgRequest>>

VARIABLES
  \* ---- mutations and query invalidation, all pages
  pendingCalls,    \* per mutation: API calls issued and not yet settled
  invalidated      \* query keys a handler invalidated, not refetched yet

sharedVars == <<pendingCalls, invalidated>>

VARIABLES
  \* ---- OrgProvider and the browser's local storage
  localStorage,    \* the "selectedOrgId" item: <<>> (no entry) or <<text>>
  providerMounted, \* the provider's mount effect has run
  lastSetOrgId     \* <<id>> of the last setOrgId(id) call of any tab (<<>>
                   \* before)

storageVars == <<localStorage, providerMounted, lastSetOrgId>>

VARIABLES
  \* ---- super-admin console: the organizations tab
  allOrgs,         \* ["all-orgs"] query: data, the rows of the table
  serverActive,    \* the server's is_active flag of every organization
  toggleStatus     \* toggleStatusMutation: its status and its variables

consoleVars == <<allOrgs, serverActive, toggleStatus>>

VARIABLES
  \* ---- super-admin organization editor: the billing-override dialog
  searchOrgs,      \* ["search-orgs", searchQuery] query: data, the rows
  editModalOpen,   \* useState(false)
  selectedOrg,     \* useState(null): <<>> or <<the row's id and name>>
  overrideEnabled, \* useState(false): the switch
  vesselLimit,     \* useState(""): the number input's text
  expiresAt,       \* useState(""): the datetime-local input's text
  reason,          \* useState(""): the textarea
  updateBilling    \* updateBillingMutation: status and pending variables

editorForm == <<overrideEnabled, vesselLimit, expiresAt, reason>>
editorVars == <<searchOrgs, editModalOpen, selectedOrg,
                editorForm, updateBilling>>

VARIABLES
  \* ---- organization admin page: members, invitations, join requests
  members,          \* ["org-members", orgId] query: data, the rows
  inviteModalOpen,  \* useState(false)
  inviteEmail,      \* useState("")
  inviteRole,       \* useState("TECH")
  createInvite,     \* createInviteMutation: status and pending variables
  updateRole,       \* updateRoleMutation
  disableMember,    \* disableMemberMutation
  orgRequests,      \* ["org-requests"] query: data, the rows
  requestStatus,    \* the server's status of every join request
  reviewModalOpen,  \* useState(false)
  selectedRequest,  \* useState(null): <<>> or <<the row clicked>>
  reviewNotes,      \* useState("")
  reviewAction,     \* useState("APPROVED")
  reviewRequest     \* reviewRequestMutation

membersCard == <<members, inviteModalOpen, inviteEmail, inviteRole,
                 createInvite, updateRole, disableMember>>
reviewDialog == <<reviewModalOpen, selectedRequest, reviewNotes,
                  reviewAction>>
requestsCard == <<orgRequests, requestStatus, reviewDialog, reviewRequest>>
adminVars == <<membersCard, requestsCard>>

VARIABLES
  \* ---- invitations accepted, billing portal, calls that outlive a page
  inviteToken,      \* onboarding: useState(""), the invite-code input
  acceptInviteCode, \* onboarding: acceptInviteMutation, its status
  accepting,        \* invite page: useState(false)
  acceptInvite,     \* invite page: acceptMutation, its status
  portal,           \* billing page: portalMutation, its status
  unmounted         \* variables of the toggle calls in flight whose page
                    \* instance has been unmounted

joinVars == <<inviteToken, acceptInviteCode, accepting, acceptInvite>>
restVars == <<joinVars, portal, unmounted>>

VARIABLES
  \* ---- invitation link: the round trip through the sign-in page
  pathToken,        \* invite page: params.token, the link's path segment
  navigations,      \* the URLs navigated to: the invite page's redirect
                    \* to sign-in and the sign-in page's return
  acceptTokens      \* the tokens api.acceptInvite was called with by the
                    \* invite page

linkVars == <<pathToken, navigations, acceptTokens>>

VARIABLES
  \* ---- a second browser tab on the same local storage
  otherOrgId,       \* the other tab's useOrg().orgId
  otherMounted      \* the other tab's provider has run its mount effect

tabVars == <<otherOrgId, otherMounted>>

VARIABLES
  \* ---- the import dialog
  importOpen,       \* the `open` prop, state of the page that renders it
  file,             \* useState(null): <<>> or <<the selected file's name>>
  isImporting,      \* useState(false)
  result,           \* useState(null): <<>> or <<the ImportResult shown>>
  lastOutcome,      \* how onImport settled in the last step: <<>> if it
                    \* did not, else <<"resolved", R>> or <<"rejected", e>>
  onSuccessCalls    \* the arguments of the onSuccess calls of the last step

importVars == <<importOpen, file, isImporting, result, lastOutcome,
                onSuccessCalls>>

VARIABLES
  \* ---- a component that calls useOrg()
  consumed          \* <<>> or <<what its last render got from useOrg()>>

hookVars == <<consumed>>

\* the state added by the flows further below
laterVars == <<tabVars, importVars, hookVars>>
lateVars == <<linkVars, laterVars>>

\* the state of the provider and of the pages below
pageVars == <<storageVars, consoleVars, editorVars, adminVars, restVars,
              lateVars>>

vars == <<overrideVars, gateVars, planVars, onboardingVars, lastToast,
          sharedVars, pageVars>>

\* what the actions of one part of the program leave alone
outsideOverride == <<gateVars, planVars, onboardingVars, lastToast,
                     sharedVars, pageVars>>
outsideGate == <<overrideVars, planVars, onboardingVars, lastToast,
                 sharedVars, pageVars>>
outsideSelection == <<lateVars, overrideVars, planVars, onboardingVars,
                      lastToast, sharedVars, providerMounted, consoleVars, editorVars,
                      adminVars, restVars>>
outsideStorage == <<lateVars, overrideVars, planVars, onboardingVars,
                    lastToast, sharedVars, consoleVars, editorVars, adminVars, restVars>>
outsideConsoleCalls == <<lateVars, overrideVars, gateVars, planVars,
                         onboardingVars, storageVars, editorVars, adminVars, joinVars, portal>>
outsideConsole == <<outsideConsoleCalls, unmounted>>
outsideEditor == <<lateVars, overrideVars, gateVars, planVars,
                   onboardingVars, storageVars, consoleVars, adminVars, restVars>>
outsideAdmin == <<lateVars, overrideVars, gateVars, planVars,
                  onboardingVars, storageVars, consoleVars, editorVars, restVars>>
outsideInvite == <<laterVars, overrideVars, planVars, onboardingVars,
                   consoleVars, editorVars, adminVars, portal, unmounted,
                   invalidated>>
outsideJoin == <<linkVars, outsideInvite>>
outsidePortal == <<lateVars, overrideVars, gateVars, planVars,
                   onboardingVars, storageVars, consoleVars, editorVars, adminVars, joinVars,
                   unmounted, invalidated>>
outsideMembersCard == <<requestsCard, outsideAdmin>>
outsideRequestsCard == <<membersCard, outsideAdmin>>
outsidePlans == <<overrideVars, onboardingVars, invalidated, pageVars>>
outsideOnboarding == <<overrideVars, gateVars, planVars, invalidated,
                       pageVars>>

\* ------------------------------------------------------------------ bounds

MaxTime == 3     \* the clock runs over 0..MaxTime
MaxSkew == 1     \* clock ticks that may pass between two reads in one render
MaxNameLen == 2  \* characters an organization name may have
MaxCalls == 2    \* calls of one mutation the model lets be in flight at once
MaxStoredLen == 3 \* characters the stored "selectedOrgId" text may have
MaxTokenLen == 3 \* characters an invitation link's token may have

\* ---------------------------------------------------------------- mutations

\* the useMutation hooks of the pages
Mutations ==
  {"createOrg", "createOrgRequest", "acceptInviteCode", "acceptInvite",
   "createInvite", "updateRole", "disableMember", "reviewRequest",
   "toggleStatus", "updateBilling", "checkout", "portal", "import"}

\* mutation.mutate(...): one more call of m is in flight
Mutate(m) == [pendingCalls EXCEPT ![m] = @ + 1]

\* a call of m resolves or rejects
Settled(m) == [pendingCalls EXCEPT ![m] = @ - 1]

\* the model follows at most MaxCalls concurrent calls of m
CanCall(m) == pendingCalls[m] < MaxCalls

NoCalls == [m \in Mutations |-> 0]

\* ------------------------------------------------------------------ values

Null == -1

Num(n) == [kind |-> "number", n |-> n, s |-> ""]
Text(s) == [kind |-> "text", n |-> 0, s |-> s]

Times == 0..MaxTime
OverrideLimits == {Null, 0, 5}
PlanLimits == {3, 10}

Orgs ==
  [ billing_override_enabled      : BOOLEAN,
    billing_override_vessel_limit : OverrideLimits,
    billing_override_expires_at   : {Null} \cup Times,
    plan_limit                    : PlanLimits ]

\* the org-billing response (computed by the server)
OrgBillings ==
  [ active : BOOLEAN, vessel_limit : {Null, 3, 5} ]

\* ------------------------------------------------ super-admin org editor

\* getEffectiveVesselLimit(org), with the instant its `new Date()` returned
getEffectiveVesselLimit_NoExpiry(o, clock) ==
  IF o.billing_override_enabled
  THEN IF o.billing_override_vessel_limit # Null
       THEN Num(o.billing_override_vessel_limit)
       ELSE Text("Unlimited")
  ELSE Text("N/A (no override)")

getEffectiveVesselLimit(o, clock) ==
  IF o.billing_override_enabled
  THEN LET expiry == o.billing_override_expires_at
       IN  IF expiry = Null \/ expiry > clock
           THEN IF o.billing_override_vessel_limit # Null
                THEN Num(o.billing_override_vessel_limit)
                ELSE Text("Unlimited")
           ELSE Text("N/A (no override)")
  ELSE Text("N/A (no override)")

\* overrideActive of the row, with the instant its `new Date()` returned
overrideActive_Inclusive(o, clock) ==
  /\ o.billing_override_enabled
  /\ \/ o.billing_override_expires_at = Null
     \/ o.billing_override_expires_at >= clock

overrideActive(o, clock) ==
  /\ o.billing_override_enabled
  /\ \/ o.billing_override_expires_at = Null
     \/ o.billing_override_expires_at > clock

OverrideBadge(active) ==
  IF active THEN "Active Override" ELSE "No Override"

\* One render of the row of org: the helper reads the clock, then the badge
\* expression reads it again; d ticks pass between the two reads.
RenderOrgRow ==
  \E d \in 0..MaxSkew :
    /\ now + d <= MaxTime
    /\ row' = << [ org            |-> org,
                   helperNow      |-> now,
                   badgeNow       |-> now + d,
                   effectiveLimit |-> getEffectiveVesselLimit(org, now),
                   badge          |-> OverrideBadge(overrideActive(org, now + d)) ] >>
    /\ now' = now + d
    /\ UNCHANGED <<org, orgBilling, orgBillingView, outsideOverride>>

\* time passes
Tick ==
  /\ now < MaxTime
  /\ now' = now + 1
  /\ UNCHANGED <<org, row, orgBilling, orgBillingView, outsideOverride>>

\* ------------------------------------------------------- org billing view

OrgBillingEffectiveLimit(b) ==
  IF b.vessel_limit = Null THEN Text("Unlimited") ELSE Num(b.vessel_limit)

OrgBillingRender(data) ==
  IF data = <<>>
  THEN [ screen |-> "not-available", overrideCard |-> FALSE,
         effectiveLimit |-> Text("") ]
  ELSE [ screen |-> "content", overrideCard |-> data[1].active,
         effectiveLimit |-> OrgBillingEffectiveLimit(data[1]) ]

\* the org-billing query settles with the server's answer and the page re-renders
OrgBillingLoaded ==
  \E b \in OrgBillings :
    /\ orgBilling' = <<b>>
    /\ orgBillingView' = OrgBillingRender(orgBilling')
    /\ UNCHANGED <<now, org, row, outsideOverride>>

OverrideInit ==
  /\ now \in Times
  /\ org \in Orgs
  /\ row = <<>>
  /\ orgBilling = <<>>
  /\ orgBillingView = OrgBillingRender(<<>>)

OverrideNext ==
  \/ RenderOrgRow
  \/ Tick
  \/ OrgBillingLoaded

\* ------------------------------------- organization selection: storage

\* Number.NaN, what parseInt answers for a text that starts with no digit
NaN == -2

DigitChars == <<"0", "1", "2", "3", "4", "5", "6", "7", "8", "9">>

IsDigit(c) == \E d \in 1..10 : DigitChars[d] = c

DigitOf(c) == (CHOOSE d \in 1..10 : DigitChars[d] = c) - 1

\* the longest prefix of s made of digits
RECURSIVE DigitsPrefix(_)
DigitsPrefix(s) ==
  IF s = <<>> \/ ~IsDigit(Head(s)) THEN <<>>
  ELSE <<Head(s)>> \o DigitsPrefix(Tail(s))

RECURSIVE DigitsValue(_)
DigitsValue(s) ==
  IF s = <<>> THEN 0
  ELSE 10 * DigitsValue(SubSeq(s, 1, Len(s) - 1)) + DigitOf(s[Len(s)])

\* parseInt(s, 10) on a text without white space and sign: the value of
\* the leading digits, NaN if there are none; it never throws
ParseInt(s) ==
  IF DigitsPrefix(s) = <<>> THEN NaN ELSE DigitsValue(DigitsPrefix(s))

\* Number.prototype.toString of an integer n >= 0
RECURSIVE toString(_)
toString(n) ==
  IF n < 10 THEN <<DigitChars[n + 1]>>
  ELSE toString(n \div 10) \o <<DigitChars[(n % 10) + 1]>>

\* JS truthiness of an org id: null, undefined, 0 and NaN are falsy
TruthyId(id) == id \notin {Null, 0, NaN}

\* what setOrgId(id) leaves in local storage: setItem or removeItem
StoredBySet(id) ==
  IF TruthyId(id) THEN <<toString(id)>> ELSE <<>>

\* what the mount effect makes of the stored item: `if (stored)` skips an
\* absent and an empty text
LoadedOrgId(item) ==
  IF item # <<>> /\ item[1] # <<>> THEN ParseInt(item[1]) ELSE Null

StorageChars == {"0", "1", "2", "x"}

StoredTexts == UNION { [1..n -> StorageChars] : n \in 0..MaxStoredLen }

StoredItems == {<<>>} \cup { <<t>> : t \in StoredTexts }

\* the ids setOrgId is called with
SetIds == {Null, 0, 1, 2, 12}

\* ------------------------------------------ identity and gated pages: values

OrgIds == {1, 2}

Membership(o, r, s) == [org_id |-> o, role |-> r, status |-> s]

\* memberships of GET /me: at most one per organization
MembershipLists ==
  { <<>>,
    << Membership(1, "ADMIN", "ACTIVE") >>,
    << Membership(1, "TECH", "ACTIVE") >>,
    << Membership(1, "ADMIN", "DISABLED") >>,
    << Membership(1, "TECH", "ACTIVE"), Membership(2, "ADMIN", "ACTIVE") >> }

Users == [ is_super_admin : BOOLEAN, memberships : MembershipLists ]

AdminPages == {"super-admin", "super-admin-orgs", "admin-billing", "admin"}
Pages == AdminPages \cup {"landing"}

\* the data queries, and the page whose hooks declare each
DataQueries ==
  {"all-orgs", "all-users", "search-orgs", "billing-status",
   "org-members", "org-requests"}

QueryPage(q) ==
  CASE q \in {"all-orgs", "all-users"}        -> "super-admin"
    [] q = "search-orgs"                      -> "super-admin-orgs"
    [] q = "billing-status"                   -> "admin-billing"
    [] q \in {"org-members", "org-requests"}  -> "admin"

\* the billing status the gated billing page loads
GateBillings == { [plan |-> "starter", vessel_limit |-> 3] }

NoQueries == [q \in DataQueries |-> <<>>]

\* --------------------------------------------------- the ["me"] query

\* isLoading of the query: no data yet and a fetch in flight
meLoading == meStatus = "pending" /\ meFetching

meError == meStatus = "error"

\* me?.user.is_super_admin === true
IsSuperAdmin(me) == me # <<>> /\ me[1].is_super_admin = TRUE

\* the pages that declare a ["me"] query of their own (the others show the
\* header's)
MePages == {"super-admin", "super-admin-orgs", "admin-billing", "onboarding"}

\* the `retry` option of the page's ["me"] query (the library default is 3)
MeRetry(p) ==
  IF p \in {"super-admin", "super-admin-orgs"} THEN 1 ELSE 3

\* memberships.find((m) => m.org_id === id): the first match, <<>> if none
FindMembership(ms, id) ==
  LET hits == {i \in 1..Len(ms) : ms[i].org_id = id}
  IN  IF hits = {} THEN <<>>
      ELSE << ms[CHOOSE i \in hits : \A j \in hits : i <= j] >>

\* memberships.filter((m) => m.status === "ACTIVE")
ActiveMemberships(me) ==
  IF me = <<>> THEN <<>>
  ELSE SelectSeq(me[1].memberships, LAMBDA m : m.status = "ACTIVE")

\* ------------------------------------------------ the pages' render paths

View(class, screen) == [class |-> class, screen |-> screen]

\* SuperAdminPage
SuperAdminPageView ==
  IF ~isSignedIn THEN View("redirect", "null")
  ELSE IF meLoading THEN View("loading", "Loading user data...")
  ELSE IF meError THEN View("error", "Error loading user data")
  ELSE IF isSignedIn /\ meData # <<>> /\ ~meData[1].is_super_admin
       THEN View("denied", "Super admin access required")
  ELSE View("content", "Super Admin Dashboard")

\* SuperAdminOrgsPage
SuperAdminOrgsPageView ==
  IF ~isSignedIn THEN View("redirect", "null")
  ELSE IF meLoading THEN View("loading", "Loading...")
  ELSE IF isSignedIn /\ meData # <<>> /\ ~meData[1].is_super_admin
       THEN View("denied", "Super admin access required")
  ELSE View("content", "Organization Management")

\* BillingPage: currentMembership?.role === "ADMIN"
BillingIsAdmin(me, id) ==
  /\ me # <<>>
  /\ FindMembership(me[1].memberships, id) # <<>>
  /\ FindMembership(me[1].memberships, id)[1].role = "ADMIN"

billingLoading == billing = <<>> /\ inflight["billing-status"] # <<>>

\* BillingPage
BillingPageView ==
  IF ~isSignedIn THEN View("redirect", "null")
  ELSE IF ~BillingIsAdmin(meData, orgId)
       THEN View("denied", "Admin access required to manage billing")
  ELSE IF billingLoading THEN View("content", "Loading...")
  ELSE IF billing = <<>>
       THEN View("content", "Unable to load billing information")
  ELSE View("content", "Billing & Subscription")

\* AdminPage
AdminPageView ==
  IF ~isSignedIn THEN View("redirect", "null")
  ELSE IF ~TruthyId(orgId)
       THEN View("denied", "Please select an organization")
  ELSE View("content", "Organization Admin")

\* OnboardingPage
OnboardingPageView ==
  IF ~isSignedIn THEN View("sign-in", "Please sign in to continue")
  ELSE IF meLoading THEN View("loading", "Loading...")
  ELSE View("content", "onboarding")

\* InviteAcceptPage
InviteAcceptPageView ==
  IF ~isLoaded THEN View("loading", "Loading...")
  ELSE IF ~isSignedIn THEN View("content", "Sign In to Accept")
  ELSE View("content", "Accept Invitation")

PageView ==
  CASE page = "super-admin"      -> SuperAdminPageView
    [] page = "super-admin-orgs" -> SuperAdminOrgsPageView
    [] page = "admin-billing"    -> BillingPageView
    [] page = "admin"            -> AdminPageView
    [] page = "onboarding"       -> OnboardingPageView
    [] page = "invite"           -> InviteAcceptPageView
    [] page = "sign-in"          -> View("public", "sign-in")
    [] OTHER                     -> View("public", "landing")

\* every state change re-renders the mounted page
Rerender == view' = PageView'

\* ------------------------------------------ the queries' enabled options

SuperAdminQueryEnabled_SignedInOnly ==
  isSignedIn = TRUE

\* all-orgs, all-users, search-orgs
SuperAdminQueryEnabled ==
  isSignedIn = TRUE /\ IsSuperAdmin(meData)

\* billing-status
BillingStatusEnabled ==
  isSignedIn = TRUE /\ orgId # Null

\* org-members
OrgMembersEnabled ==
  TruthyId(orgId) /\ isSignedIn = TRUE

\* org-requests
OrgRequestsEnabled ==
  isSignedIn = TRUE

QueryEnabled(q) ==
  CASE q \in {"all-orgs", "all-users", "search-orgs"} -> SuperAdminQueryEnabled
    [] q = "billing-status"                          -> BillingStatusEnabled
    [] q = "org-members"                             -> OrgMembersEnabled
    [] q = "org-requests"                            -> OrgRequestsEnabled

\* ----------------------------------------------------------- the actions

\* the ["me"] query becomes enabled: it fetches unless it holds data
StartMeFetch ==
  IF meData = <<>>
  THEN /\ meStatus' = "pending"
       /\ meFetching' = TRUE
       /\ meFailureCount' = 0
       /\ meRetry' = MeRetry(page')
  ELSE UNCHANGED <<meStatus, meFetching, meFailureCount, meRetry>>

\* the identity adapter resolves the session
ClerkLoad ==
  \E s \in BOOLEAN :
    /\ ~isLoaded
    /\ isLoaded' = TRUE
    /\ isSignedIn' = s
    /\ UNCHANGED <<user, meData, orgId, page, inflight, billing>>
    /\ IF s THEN StartMeFetch
       ELSE UNCHANGED <<meStatus, meFetching, meFailureCount, meRetry>>
    /\ Rerender
    /\ UNCHANGED outsideGate

\* SignInButton mode="modal"
SignIn ==
  /\ isLoaded /\ ~isSignedIn
  /\ isSignedIn' = TRUE
  /\ UNCHANGED <<isLoaded, user, meData, orgId, page, inflight, billing>>
  /\ StartMeFetch
  /\ Rerender
  /\ UNCHANGED outsideGate

\* UserButton
SignOut ==
  /\ isLoaded /\ isSignedIn
  /\ isSignedIn' = FALSE
  /\ UNCHANGED <<isLoaded, user, meStatus, meFetching, meFailureCount,
                 meRetry, meData, orgId, page, inflight, billing>>
  /\ Rerender
  /\ UNCHANGED outsideGate

\* api.getMe() resolves
MeFetchSuccess ==
  /\ meFetching
  /\ meStatus' = "success"
  /\ meFetching' = FALSE
  /\ meFailureCount' = 0
  /\ meData' = <<user>>
  /\ UNCHANGED meRetry
  /\ UNCHANGED <<isLoaded, isSignedIn, user, orgId, page, inflight, billing>>
  /\ Rerender
  /\ UNCHANGED outsideGate

\* api.getMe() rejects: retried `retry` times, then the query is in error
MeFetchFail ==
  /\ meFetching
  /\ UNCHANGED meRetry
  /\ IF meFailureCount < meRetry
     THEN /\ meFailureCount' = meFailureCount + 1
          /\ UNCHANGED <<meStatus, meFetching>>
     ELSE /\ meFailureCount' = meFailureCount + 1
          /\ meStatus' = "error"
          /\ meFetching' = FALSE
  /\ UNCHANGED <<isLoaded, isSignedIn, user, meData, orgId, page, inflight,
                 billing>>
  /\ Rerender
  /\ UNCHANGED outsideGate

\* a link or a typed URL mounts another page; the queries of the page left
\* lose their observers.  The ["me"] observer of the page mounted joins a
\* fetch in flight (whose `retry` stays the one it started with) and starts
\* one, as SignIn does, when the query has no data and is not fetching
Navigate ==
  \E p \in Pages :
    /\ p # page
    /\ page' = p
    /\ inflight' = NoQueries
    /\ UNCHANGED <<isLoaded, isSignedIn, user, meData, orgId, billing>>
    /\ IF isSignedIn /\ p \in MePages /\ ~meFetching
       THEN StartMeFetch
       ELSE UNCHANGED <<meStatus, meFetching, meFailureCount, meRetry>>
    /\ Rerender
    /\ UNCHANGED outsideGate

\* router.push("/") of a page rendered while not signed in
RedirectHome ==
  /\ page \in AdminPages
  /\ view.class = "redirect"
  /\ page' = "landing"
  /\ inflight' = NoQueries
  /\ UNCHANGED <<isLoaded, isSignedIn, user, meStatus, meFetching,
                 meFailureCount, meRetry, meData, orgId, billing>>
  /\ Rerender
  /\ UNCHANGED outsideGate

\* a data query of the mounted page fetches (on mount, when it becomes
\* enabled, or on a refetch); identical requests in flight are deduplicated
IssueQuery ==
  \E q \in DataQueries :
    /\ QueryPage(q) = page
    /\ QueryEnabled(q)
    /\ inflight[q] = <<>>
    /\ inflight' = [inflight EXCEPT ![q] =
                      << [isSignedIn |-> isSignedIn, me |-> meData,
                          orgId |-> orgId] >>]
    /\ UNCHANGED <<isLoaded, isSignedIn, user, meStatus, meFetching,
                   meFailureCount, meRetry, meData, orgId, page, billing>>
    /\ Rerender
    /\ UNCHANGED outsideGate

\* a data query in flight settles; billing-status keeps what it loaded
QuerySettle ==
  \E q \in DataQueries, ok \in BOOLEAN :
    /\ inflight[q] # <<>>
    /\ inflight' = [inflight EXCEPT ![q] = <<>>]
    /\ IF q = "billing-status" /\ ok
       THEN \E b \in GateBillings : billing' = <<b>>
       ELSE UNCHANGED billing
    /\ UNCHANGED <<isLoaded, isSignedIn, user, meStatus, meFetching,
                   meFailureCount, meRetry, meData, orgId, page>>
    /\ Rerender
    /\ UNCHANGED outsideGate

\* Header: the organization <Select>, offered for the active memberships
SelectOrg ==
  \E i \in 1..Len(ActiveMemberships(meData)) :
    /\ isSignedIn
    /\ orgId' = ActiveMemberships(meData)[i].org_id
    /\ orgId' # orgId
    /\ localStorage' = StoredBySet(orgId')
    /\ lastSetOrgId' = <<orgId'>>
    /\ UNCHANGED <<isLoaded, isSignedIn, user, meStatus, meFetching,
                   meFailureCount, meRetry, meData, page, inflight, billing>>
    /\ Rerender
    /\ UNCHANGED outsideSelection

\* Header: the effect that selects the first active membership
HeaderAutoSelect ==
  /\ isSignedIn
  /\ ~TruthyId(orgId)
  /\ Len(ActiveMemberships(meData)) > 0
  /\ orgId' = ActiveMemberships(meData)[1].org_id
  /\ localStorage' = StoredBySet(orgId')
  /\ lastSetOrgId' = <<orgId'>>
  /\ UNCHANGED <<isLoaded, isSignedIn, user, meStatus, meFetching,
                 meFailureCount, meRetry, meData, page, inflight, billing>>
  /\ Rerender
  /\ UNCHANGED outsideSelection

GateInit ==
  /\ isLoaded = FALSE
  /\ isSignedIn = FALSE
  /\ user \in Users
  /\ meStatus = "pending"
  /\ meFetching = FALSE
  /\ meFailureCount = 0
  /\ meRetry = 0
  /\ meData = <<>>
  /\ orgId \in {Null} \cup OrgIds
  /\ localStorage = StoredBySet(orgId)
  /\ providerMounted = TRUE
  /\ lastSetOrgId = <<>>
  /\ page \in Pages
  /\ view = PageView
  /\ inflight = NoQueries
  /\ billing = <<>>

GateNext ==
  \/ ClerkLoad
  \/ SignIn
  \/ SignOut
  \/ MeFetchSuccess
  \/ MeFetchFail
  \/ Navigate
  \/ RedirectHome
  \/ IssueQuery
  \/ QuerySettle
  \/ SelectOrg
  \/ HeaderAutoSelect

\* ------------------------------------ organization selection: OrgProvider

\* the provider's mount effect: adopt the stored id
OrgProviderMount ==
  /\ ~providerMounted
  /\ providerMounted' = TRUE
  /\ orgId' = LoadedOrgId(localStorage)
  /\ UNCHANGED <<localStorage, lastSetOrgId>>
  /\ UNCHANGED <<isLoaded, isSignedIn, user, meStatus, meFetching,
                 meFailureCount, meRetry, meData, page, inflight, billing>>
  /\ Rerender
  /\ UNCHANGED outsideStorage

\* setOrgId(id), called by a component under the provider
setOrgId ==
  \E id \in SetIds :
    /\ providerMounted
    /\ orgId' = id
    /\ localStorage' = StoredBySet(id)
    /\ lastSetOrgId' = <<id>>
    /\ UNCHANGED providerMounted
    /\ UNCHANGED <<isLoaded, isSignedIn, user, meStatus, meFetching,
                   meFailureCount, meRetry, meData, page, inflight, billing>>
    /\ Rerender
    /\ UNCHANGED outsideStorage

\* the page is reloaded: the provider's state starts over, the storage stays
Reload ==
  /\ providerMounted
  /\ providerMounted' = FALSE
  /\ orgId' = Null
  /\ UNCHANGED <<localStorage, lastSetOrgId>>
  /\ UNCHANGED <<isLoaded, isSignedIn, user, meStatus, meFetching,
                 meFailureCount, meRetry, meData, page, inflight, billing>>
  /\ Rerender
  /\ UNCHANGED outsideStorage

\* the provider has rendered for the first time; the storage holds whatever
\* an earlier session left
StorageInit ==
  /\ localStorage \in StoredItems
  /\ providerMounted = FALSE
  /\ lastSetOrgId = <<>>

StorageNext ==
  \/ OrgProviderMount
  \/ setOrgId
  \/ Reload

\* ------------------------------------------------- billing page: plans

\* billing.plan === null
NoPlan == "(none)"

PLANS ==
  << [id |-> "starter",   name |-> "Starter",   vessels |-> Num(3),            price |-> "$29"],
     [id |-> "standard",  name |-> "Standard",  vessels |-> Num(5),            price |-> "$49"],
     [id |-> "pro",       name |-> "Pro",       vessels |-> Num(10),           price |-> "$99"],
     [id |-> "unlimited", name |-> "Unlimited", vessels |-> Text("Unlimited"), price |-> "$199"] >>

\* the billing status as the server may answer it: the plan of the
\* subscription (none, a listed one, or one no longer listed) and the
\* effective vessel limit (null when unlimited)
PlanBillings ==
  [ plan : {NoPlan, "starter", "standard", "pro", "unlimited", "legacy"},
    vessel_limit : {Null, 0, 3, 5, 10, 12} ]

isCurrentPlan(b, plan) == b.plan = plan.id

isUpgrade_NoTopTier(b, plan) ==
  /\ b.plan # NoPlan
  /\ ~isCurrentPlan(b, plan)
  /\ b.vessel_limit # Null
  /\ plan.vessels # Text("Unlimited")
  /\ plan.vessels.kind = "number"
  /\ plan.vessels.n > b.vessel_limit

isUpgrade_Inclusive(b, plan) ==
  /\ b.plan # NoPlan
  /\ ~isCurrentPlan(b, plan)
  /\ \/ plan.id = "unlimited"
     \/ /\ b.vessel_limit # Null
        /\ plan.vessels # Text("Unlimited")
        /\ plan.vessels.kind = "number"
        /\ plan.vessels.n >= b.vessel_limit

\* billing.plan && !isCurrentPlan && (plan.id === "unlimited" || ...)
isUpgrade(b, plan) ==
  /\ b.plan # NoPlan
  /\ ~isCurrentPlan(b, plan)
  /\ \/ plan.id = "unlimited"
     \/ /\ b.vessel_limit # Null
        /\ plan.vessels # Text("Unlimited")
        /\ plan.vessels.kind = "number"
        /\ plan.vessels.n > b.vessel_limit

\* the badge or the label of the button of a plan card
PlanButton(b, plan, isPending) ==
  IF isCurrentPlan(b, plan) THEN "Current Plan"
  ELSE IF isPending THEN "Loading..."
  ELSE IF isUpgrade(b, plan) THEN "Upgrade"
  ELSE "Change Plan"

\* PLANS.map(...) of the rendered billing page
PlanCards ==
  IF billing = <<>> \/ PageView.screen # "Billing & Subscription"
  THEN <<>>
  ELSE [ i \in 1..Len(PLANS) |->
           [ id            |-> PLANS[i].id,
             isCurrentPlan |-> isCurrentPlan(billing[1], PLANS[i]),
             isUpgrade     |-> isUpgrade(billing[1], PLANS[i]),
             button        |-> PlanButton(billing[1], PLANS[i],
                                          checkout.status = "pending") ] ]

\* the billing-status query settles (first load or refetch) and the page
\* re-renders
BillingStatusLoaded ==
  \E b \in PlanBillings :
    /\ page = "admin-billing"
    /\ isSignedIn
    /\ checkout.status # "redirected"
    /\ portal # "redirected"
    /\ billing' = <<b>>
    /\ lastToast' = ""
    /\ UNCHANGED <<isLoaded, isSignedIn, user, meStatus, meFetching,
                   meFailureCount, meRetry, meData, orgId, page, inflight,
                   checkout, pendingCalls>>
    /\ Rerender
    /\ UNCHANGED outsidePlans
    /\ cards' = PlanCards'

\* the button of a plan card that is not the current plan
Checkout ==
  \E i \in 1..Len(PLANS) :
    /\ cards # <<>>
    /\ ~cards[i].isCurrentPlan
    /\ checkout.status \notin {"pending", "redirected"}
    /\ portal # "redirected"
    /\ CanCall("checkout")
    /\ checkout' = [status |-> "pending", plan |-> PLANS[i].id]
    /\ pendingCalls' = Mutate("checkout")
    /\ lastToast' = ""
    /\ UNCHANGED <<gateVars, outsidePlans>>
    /\ cards' = PlanCards'

\* createCheckoutSession resolves: the browser leaves for data.url if there
\* is one
CheckoutSuccess ==
  \E hasUrl \in BOOLEAN :
    /\ checkout.status = "pending"
    /\ checkout' = [checkout EXCEPT !.status =
                      IF hasUrl THEN "redirected" ELSE "success"]
    /\ pendingCalls' = Settled("checkout")
    /\ lastToast' = ""
    /\ UNCHANGED <<gateVars, outsidePlans>>
    /\ cards' = PlanCards'

\* createCheckoutSession rejects
CheckoutError ==
  /\ checkout.status = "pending"
  /\ checkout' = [checkout EXCEPT !.status = "error"]
  /\ pendingCalls' = Settled("checkout")
  /\ lastToast' = "error: Failed to create checkout session"
  /\ UNCHANGED <<gateVars, outsidePlans>>
  /\ cards' = PlanCards'

\* an org admin has opened the billing page; the billing status is loading
PlansInit ==
  /\ isLoaded = TRUE
  /\ isSignedIn = TRUE
  /\ user = [ is_super_admin |-> FALSE,
              memberships |-> << Membership(1, "ADMIN", "ACTIVE") >> ]
  /\ meStatus = "success"
  /\ meFetching = FALSE
  /\ meFailureCount = 0
  /\ meRetry = 0
  /\ meData = <<user>>
  /\ orgId = 1
  /\ page = "admin-billing"
  /\ inflight = NoQueries
  /\ billing = <<>>
  /\ view = PageView
  /\ checkout = [status |-> "idle", plan |-> ""]
  /\ cards = <<>>

PlansNext ==
  \/ BillingStatusLoaded
  \/ Checkout
  \/ CheckoutSuccess
  \/ CheckoutError

\* ------------------------------------- onboarding: organization creation

\* a string is the sequence of its characters; "" is <<>>
Chars == {"a", " "}

Names == UNION { [1..n -> Chars] : n \in 0..MaxNameLen }

RECURSIVE TrimStart(_)
TrimStart(s) ==
  IF s = <<>> THEN s
  ELSE IF Head(s) = " " THEN TrimStart(Tail(s)) ELSE s

RECURSIVE TrimEnd(_)
TrimEnd(s) ==
  IF s = <<>> THEN s
  ELSE IF s[Len(s)] = " " THEN TrimEnd(SubSeq(s, 1, Len(s) - 1)) ELSE s

\* String.prototype.trim
Trim(s) == TrimEnd(TrimStart(s))

\* the statuses a rejected createOrg carries: 409 is the duplicate-name
\* conflict, 500 stands for every other failure
ErrorStatuses == {409, 500}

\* the form is on screen and the modal dialog is not over it
FormUsable ==
  /\ page = "onboarding"
  /\ PageView.class = "content"
  /\ ~duplicateConfirmOpen

\* the `disabled` attribute of the form's submit button
SubmitDisabled ==
  IF IsSuperAdmin(meData) THEN createOrg.status = "pending"
  ELSE createOrgRequest.status = "pending"

\* onChange of the organization-name input
SetOrgName ==
  \E n \in Names :
    /\ FormUsable
    /\ n # orgName
    /\ orgName' = n
    /\ lastToast' = ""
    /\ UNCHANGED <<pendingOrgName, duplicateConfirmOpen, createOrg,
                   createOrgRequest, pendingCalls, outsideOnboarding>>

\* the form is submitted (the input is `required`, so it is not empty)
handleCreateRequest ==
  /\ FormUsable
  /\ ~SubmitDisabled
  /\ orgName # <<>>
  /\ IF Trim(orgName) = <<>>
     THEN /\ lastToast' = "error: Organization name is required"
          /\ UNCHANGED <<createOrg, createOrgRequest, pendingCalls>>
     ELSE IF IsSuperAdmin(meData)
     THEN /\ CanCall("createOrg")
          /\ createOrg' = [status |-> "pending", name |-> Trim(orgName),
                           force |-> FALSE, error |-> 0]
          /\ pendingCalls' = Mutate("createOrg")
          /\ lastToast' = ""
          /\ UNCHANGED createOrgRequest
     ELSE /\ CanCall("createOrgRequest")
          /\ createOrgRequest' = [status |-> "pending",
                                  name |-> Trim(orgName)]
          /\ pendingCalls' = Mutate("createOrgRequest")
          /\ lastToast' = ""
          /\ UNCHANGED createOrg
  /\ UNCHANGED <<orgName, pendingOrgName, duplicateConfirmOpen,
                 outsideOnboarding>>

\* createOrgMutation.onSuccess
CreateOrgSuccess ==
  /\ createOrg.status = "pending"
  /\ createOrg' = [createOrg EXCEPT !.status = "success"]
  /\ pendingCalls' = Settled("createOrg")
  /\ lastToast' = "success: Organization created successfully!"
  /\ duplicateConfirmOpen' = FALSE
  /\ pendingOrgName' = <<>>
  /\ UNCHANGED <<orgName, createOrgRequest, outsideOnboarding>>

\* createOrgMutation.onError; the callback is the one of the latest render,
\* so `orgName` is the input's value when the rejection arrives.  A creation
\* carrying the force flag is not answered with the conflict status.
CreateOrgError ==
  \E status \in ErrorStatuses :
    /\ createOrg.status = "pending"
    /\ status = 409 => ~createOrg.force
    /\ createOrg' = [createOrg EXCEPT !.status = "error", !.error = status]
    /\ pendingCalls' = Settled("createOrg")
    /\ IF status = 409
       THEN /\ pendingOrgName' = orgName
            /\ duplicateConfirmOpen' = TRUE
            /\ lastToast' = ""
       ELSE /\ lastToast' = "error: Failed to create organization"
            /\ UNCHANGED <<pendingOrgName, duplicateConfirmOpen>>
    /\ UNCHANGED <<orgName, createOrgRequest, outsideOnboarding>>

\* createOrgRequestMutation.onSuccess
CreateOrgRequestSuccess ==
  /\ createOrgRequest.status = "pending"
  /\ createOrgRequest' = [createOrgRequest EXCEPT !.status = "success"]
  /\ pendingCalls' = Settled("createOrgRequest")
  /\ lastToast' = "success: Organization request submitted!"
  /\ UNCHANGED <<orgName, pendingOrgName, duplicateConfirmOpen, createOrg,
                 outsideOnboarding>>

\* createOrgRequestMutation.onError
CreateOrgRequestError ==
  /\ createOrgRequest.status = "pending"
  /\ createOrgRequest' = [createOrgRequest EXCEPT !.status = "error"]
  /\ pendingCalls' = Settled("createOrgRequest")
  /\ lastToast' = "error: Failed to submit organization request"
  /\ UNCHANGED <<orgName, pendingOrgName, duplicateConfirmOpen, createOrg,
                 outsideOnboarding>>

\* the dialog's Cancel button
DialogCancel ==
  /\ duplicateConfirmOpen
  /\ createOrg.status # "pending"
  /\ duplicateConfirmOpen' = FALSE
  /\ pendingOrgName' = <<>>
  /\ lastToast' = ""
  /\ UNCHANGED <<orgName, createOrg, createOrgRequest, pendingCalls,
                 outsideOnboarding>>

\* the buttons of the dialog can be pressed
DialogOperable ==
  /\ page = "onboarding"
  /\ duplicateConfirmOpen
  /\ createOrg.status # "pending"

\* `if (pendingOrgName)`: a non-empty text is truthy
ConfirmSubmits == pendingOrgName # <<>>

\* the dialog's "Create Anyway" button
DialogConfirm ==
  /\ DialogOperable
  /\ IF ConfirmSubmits
     THEN /\ CanCall("createOrg")
          /\ createOrg' = [status |-> "pending", name |-> pendingOrgName,
                           force |-> TRUE, error |-> 0]
          /\ pendingCalls' = Mutate("createOrg")
     ELSE UNCHANGED <<createOrg, pendingCalls>>
  /\ lastToast' = ""
  /\ UNCHANGED <<orgName, pendingOrgName, duplicateConfirmOpen,
                 createOrgRequest, outsideOnboarding>>

\* onOpenChange(false): escape, the overlay or the close button
DialogDismiss ==
  /\ duplicateConfirmOpen
  /\ duplicateConfirmOpen' = FALSE
  /\ lastToast' = ""
  /\ UNCHANGED <<orgName, pendingOrgName, createOrg, createOrgRequest,
                 pendingCalls, outsideOnboarding>>

\* a signed-in user, identity loaded, has opened the onboarding page
OnboardingInit ==
  /\ isLoaded = TRUE
  /\ isSignedIn = TRUE
  /\ user \in { u \in Users : Len(u.memberships) <= 1 }
  /\ meStatus = "success"
  /\ meFetching = FALSE
  /\ meFailureCount = 0
  /\ meRetry = 0
  /\ meData = <<user>>
  /\ orgId = Null
  /\ page = "onboarding"
  /\ inflight = NoQueries
  /\ billing = <<>>
  /\ view = PageView
  /\ orgName = <<>>
  /\ pendingOrgName = <<>>
  /\ duplicateConfirmOpen = FALSE
  /\ createOrg = [status |-> "idle", name |-> <<>>, force |-> FALSE,
                  error |-> 0]
  /\ createOrgRequest = [status |-> "idle", name |-> <<>>]
  /\ lastToast = ""

OnboardingNext ==
  \/ SetOrgName
  \/ handleCreateRequest
  \/ CreateOrgSuccess
  \/ CreateOrgError
  \/ CreateOrgRequestSuccess
  \/ CreateOrgRequestError
  \/ DialogCancel
  \/ DialogConfirm
  \/ DialogDismiss

\* ------------------------------------- super-admin console: organizations

ConsoleOrgName(id) == IF id = 1 THEN "Marina Bay" ELSE "Harbor"

\* the organization the server answers for id, is_active being a
ConsoleOrg(id, a) == [id |-> id, name |-> ConsoleOrgName(id), is_active |-> a]

\* api.listAllOrgs() answered from the server's state
ListAllOrgs(active) == [i \in 1..2 |-> ConsoleOrg(i, active[i])]

\* the success toast of toggleStatusMutation for the organization returned
ToggleToast_Inverted(o) ==
  "success: Organization \"" \o o.name \o "\" has been "
     \o (IF o.is_active THEN "disabled" ELSE "enabled")

ToggleToast(o) ==
  "success: Organization \"" \o o.name \o "\" has been "
     \o (IF o.is_active THEN "enabled" ELSE "disabled")

\* the organizations table is on screen
ConsoleUsable ==
  /\ page = "super-admin"
  /\ PageView.class = "content"

\* the Disable / Enable button of a row
ToggleClick ==
  \E i \in 1..Len(allOrgs) :
    /\ ConsoleUsable
    /\ toggleStatus.status # "pending"
    /\ CanCall("toggleStatus")
    /\ toggleStatus' = [status |-> "pending", orgId |-> allOrgs[i].id]
    /\ pendingCalls' = Mutate("toggleStatus")
    /\ lastToast' = ""
    /\ UNCHANGED <<allOrgs, serverActive, invalidated, outsideConsole>>

\* api.toggleOrgStatus resolves with the organization as the server now
\* holds it; toggleStatusMutation.onSuccess
ToggleSuccess ==
  /\ toggleStatus.status = "pending"
  /\ serverActive' = [serverActive EXCEPT ![toggleStatus.orgId] = ~@]
  /\ toggleStatus' = [toggleStatus EXCEPT !.status = "success"]
  /\ pendingCalls' = Settled("toggleStatus")
  /\ lastToast' = ToggleToast(ConsoleOrg(toggleStatus.orgId,
                                         serverActive'[toggleStatus.orgId]))
  /\ invalidated' = invalidated \cup {"all-orgs"}
  /\ UNCHANGED <<allOrgs, outsideConsole>>

\* api.toggleOrgStatus rejects; toggleStatusMutation.onError
ToggleError ==
  /\ toggleStatus.status = "pending"
  /\ toggleStatus' = [toggleStatus EXCEPT !.status = "error"]
  /\ pendingCalls' = Settled("toggleStatus")
  /\ lastToast' = "error: Failed to toggle organization status"
  /\ UNCHANGED <<allOrgs, serverActive, invalidated, outsideConsole>>

\* the refetch of the invalidated ["all-orgs"] query settles; a failed
\* refetch keeps the rows it had
AllOrgsRefetched ==
  \E ok \in BOOLEAN :
    /\ page = "super-admin"
    /\ "all-orgs" \in invalidated
    /\ invalidated' = invalidated \ {"all-orgs"}
    /\ allOrgs' = IF ok THEN ListAllOrgs(serverActive) ELSE allOrgs
    /\ UNCHANGED <<serverActive, toggleStatus, pendingCalls, lastToast,
                   outsideConsole>>

\* another super admin toggles an organization
OtherAdminToggles ==
  \E id \in OrgIds :
    /\ page = "super-admin"
    /\ serverActive' = [serverActive EXCEPT ![id] = ~@]
    /\ UNCHANGED <<allOrgs, toggleStatus, sharedVars, lastToast,
                   outsideConsole>>

\* a super admin has opened the console and the table is loaded
ConsoleInit ==
  /\ isLoaded = TRUE
  /\ isSignedIn = TRUE
  /\ user = [is_super_admin |-> TRUE, memberships |-> <<>>]
  /\ meStatus = "success"
  /\ meFetching = FALSE
  /\ meFailureCount = 0
  /\ meRetry = MeRetry("super-admin")
  /\ meData = <<user>>
  /\ orgId = Null
  /\ page = "super-admin"
  /\ inflight = NoQueries
  /\ billing = <<>>
  /\ view = PageView
  /\ serverActive \in [OrgIds -> BOOLEAN]
  /\ allOrgs = ListAllOrgs(serverActive)
  /\ toggleStatus = [status |-> "idle", orgId |-> Null]

ConsoleNext ==
  \/ ToggleClick
  \/ ToggleSuccess
  \/ ToggleError
  \/ AllOrgsRefetched
  \/ OtherAdminToggles

\* ------------------------------- super-admin organization editor: dialog

NoReason == "(none)"

\* the override fields of an organization as /search returns them
Override(e, l, x, r) ==
  [ billing_override_enabled      |-> e,
    billing_override_vessel_limit |-> l,
    billing_override_expires_at   |-> x,
    billing_override_reason       |-> r ]

NoOverride == Override(FALSE, Null, Null, NoReason)

EditorOrgName(id) == IF id = 1 THEN "Marina Bay" ELSE "Harbor"

EditorOrg(id, o) ==
  [ id |-> id, name |-> EditorOrgName(id),
    billing_override_enabled      |-> o.billing_override_enabled,
    billing_override_vessel_limit |-> o.billing_override_vessel_limit,
    billing_override_expires_at   |-> o.billing_override_expires_at,
    billing_override_reason       |-> o.billing_override_reason ]

\* the override states the first organization can be in on the server; the
\* second has an override with every field set
ServerOverrides ==
  { NoOverride,
    Override(TRUE, 0, Null, NoReason),
    Override(TRUE, Null, 3, "promo") }

\* api.searchOrgs() when the first organization's override is o
SearchOrgsResult(o) ==
  <<EditorOrg(1, o), EditorOrg(2, Override(TRUE, 5, 3, "promo"))>>

\* format(new Date(t), "yyyy-MM-dd'T'HH:mm"): the text of the minute of t;
\* instants count half minutes, so that the minute forgets the seconds
FormatMinute(t) == <<t \div 2>>

\* org.billing_override_vessel_limit?.toString() || ""
VesselLimitField_ZeroEmpty(o) ==
  IF o.billing_override_vessel_limit \in {Null, 0} THEN <<>>
  ELSE toString(o.billing_override_vessel_limit)

VesselLimitField(o) ==
  IF o.billing_override_vessel_limit = Null THEN <<>>
  ELSE toString(o.billing_override_vessel_limit)

ExpiresAtField(o) ==
  IF o.billing_override_expires_at = Null THEN <<>>
  ELSE FormatMinute(o.billing_override_expires_at)

\* org.billing_override_reason || ""
ReasonField(o) ==
  IF o.billing_override_reason \in {NoReason, ""} THEN ""
  ELSE o.billing_override_reason

\* what the user can type into the inputs
VesselLimitTexts == {<<>>, <<"0">>, <<"5">>}
ExpiresAtTexts == {<<>>, <<1>>}
ReasonTexts == {"", "promo"}

\* the table of organizations is on screen
EditorUsable ==
  /\ page = "super-admin-orgs"
  /\ PageView.class = "content"

\* the Edit button of a row; the open dialog is modal
handleEdit ==
  \E i \in 1..Len(searchOrgs) :
    LET o == searchOrgs[i] IN
    /\ EditorUsable
    /\ ~editModalOpen
    /\ selectedOrg' = <<[id |-> o.id, name |-> o.name]>>
    /\ overrideEnabled' = o.billing_override_enabled
    /\ vesselLimit' = VesselLimitField(o)
    /\ expiresAt' = ExpiresAtField(o)
    /\ reason' = ReasonField(o)
    /\ editModalOpen' = TRUE
    /\ UNCHANGED <<searchOrgs, updateBilling, sharedVars,
                   lastToast, outsideEditor>>

\* the switch
SetOverrideEnabled ==
  /\ editModalOpen
  /\ overrideEnabled' = ~overrideEnabled
  /\ UNCHANGED <<searchOrgs, editModalOpen, selectedOrg,
                 vesselLimit, expiresAt, reason, updateBilling, sharedVars,
                 lastToast, outsideEditor>>

\* the three inputs, rendered while the switch is on
SetVesselLimit ==
  \E t \in VesselLimitTexts :
    /\ editModalOpen
    /\ overrideEnabled
    /\ vesselLimit' = t
    /\ UNCHANGED <<searchOrgs, editModalOpen, selectedOrg,
                   overrideEnabled, expiresAt, reason, updateBilling,
                   sharedVars, lastToast, outsideEditor>>

SetExpiresAt ==
  \E t \in ExpiresAtTexts :
    /\ editModalOpen
    /\ overrideEnabled
    /\ expiresAt' = t
    /\ UNCHANGED <<searchOrgs, editModalOpen, selectedOrg,
                   overrideEnabled, vesselLimit, reason, updateBilling,
                   sharedVars, lastToast, outsideEditor>>

SetReason ==
  \E t \in ReasonTexts :
    /\ editModalOpen
    /\ overrideEnabled
    /\ reason' = t
    /\ UNCHANGED <<searchOrgs, editModalOpen, selectedOrg,
                   overrideEnabled, vesselLimit, expiresAt, updateBilling,
                   sharedVars, lastToast, outsideEditor>>

\* the Cancel button and the dialog's own dismissal: setEditModalOpen(false)
EditClose ==
  /\ editModalOpen
  /\ editModalOpen' = FALSE
  /\ UNCHANGED <<searchOrgs, selectedOrg, editorForm,
                 updateBilling, sharedVars, lastToast, outsideEditor>>

\* updateData of handleSave
SaveVesselLimit ==
  IF overrideEnabled /\ vesselLimit # <<>> /\ ParseInt(vesselLimit) \notin {0, NaN}
  THEN ParseInt(vesselLimit) ELSE Null

SaveExpiresAt ==
  IF overrideEnabled /\ expiresAt # <<>> THEN <<expiresAt>> ELSE <<>>

SaveReason ==
  IF overrideEnabled /\ reason # "" THEN reason ELSE NoReason

\* the Save Changes button
handleSave ==
  /\ editModalOpen
  /\ updateBilling.status # "pending"
  /\ IF selectedOrg = <<>>
     THEN UNCHANGED <<updateBilling, pendingCalls, lastToast>>
     ELSE /\ CanCall("updateBilling")
          /\ updateBilling' =
               [ status |-> "pending",
                 variables |->
                   <<[ orgId |-> selectedOrg[1].id,
                       billing_override_enabled |-> overrideEnabled,
                       billing_override_vessel_limit |-> SaveVesselLimit,
                       billing_override_expires_at |-> SaveExpiresAt,
                       billing_override_reason |-> SaveReason ]>> ]
          /\ pendingCalls' = Mutate("updateBilling")
          /\ lastToast' = ""
  /\ UNCHANGED <<searchOrgs, editModalOpen, selectedOrg,
                 editorForm, invalidated, outsideEditor>>

\* api.updateBillingOverride resolves; updateBillingMutation.onSuccess
UpdateBillingSuccess ==
  /\ updateBilling.status = "pending"
  /\ updateBilling' = [status |-> "success", variables |-> <<>>]
  /\ pendingCalls' = Settled("updateBilling")
  /\ lastToast' = "success: Billing override updated successfully"
  /\ editModalOpen' = FALSE
  /\ selectedOrg' = <<>>
  /\ invalidated' = invalidated \cup {"search-orgs"}
  /\ UNCHANGED <<searchOrgs, editorForm, outsideEditor>>

\* api.updateBillingOverride rejects; updateBillingMutation.onError
UpdateBillingError_Closing ==
  /\ updateBilling.status = "pending"
  /\ updateBilling' = [status |-> "error", variables |-> <<>>]
  /\ pendingCalls' = Settled("updateBilling")
  /\ lastToast' = "error: Failed to update billing override"
  /\ editModalOpen' = FALSE
  /\ selectedOrg' = <<>>
  /\ UNCHANGED <<searchOrgs, editorForm, invalidated, outsideEditor>>

UpdateBillingError ==
  /\ updateBilling.status = "pending"
  /\ updateBilling' = [status |-> "error", variables |-> <<>>]
  /\ pendingCalls' = Settled("updateBilling")
  /\ lastToast' = "error: Failed to update billing override"
  /\ UNCHANGED <<searchOrgs, editModalOpen, selectedOrg,
                 editorForm, invalidated, outsideEditor>>

\* the refetch of the invalidated ["search-orgs"] query settles with the
\* organizations as the server holds them by then, whoever changed them; a
\* failed refetch keeps the rows it had
SearchOrgsRefetched ==
  \E rows \in {SearchOrgsResult(o) : o \in ServerOverrides} \cup {searchOrgs} :
    /\ page = "super-admin-orgs"
    /\ "search-orgs" \in invalidated
    /\ invalidated' = invalidated \ {"search-orgs"}
    /\ searchOrgs' = rows
    /\ UNCHANGED <<editModalOpen, selectedOrg, editorForm, updateBilling,
                   pendingCalls, lastToast, outsideEditor>>

\* a super admin has opened the editor page and the rows are loaded
EditorInit ==
  /\ isLoaded = TRUE
  /\ isSignedIn = TRUE
  /\ user = [is_super_admin |-> TRUE, memberships |-> <<>>]
  /\ meStatus = "success"
  /\ meFetching = FALSE
  /\ meFailureCount = 0
  /\ meRetry = MeRetry("super-admin-orgs")
  /\ meData = <<user>>
  /\ orgId = Null
  /\ page = "super-admin-orgs"
  /\ inflight = NoQueries
  /\ billing = <<>>
  /\ view = PageView
  /\ searchOrgs \in {SearchOrgsResult(o) : o \in ServerOverrides}
  /\ editModalOpen = FALSE
  /\ selectedOrg = <<>>
  /\ overrideEnabled = FALSE
  /\ vesselLimit = <<>>
  /\ expiresAt = <<>>
  /\ reason = ""
  /\ updateBilling = [status |-> "idle", variables |-> <<>>]

EditorNext ==
  \/ handleEdit
  \/ SetOverrideEnabled
  \/ SetVesselLimit
  \/ SetExpiresAt
  \/ SetReason
  \/ EditClose
  \/ handleSave
  \/ UpdateBillingSuccess
  \/ UpdateBillingError
  \/ SearchOrgsRefetched

\* ------------------------------------- organization admin page: members

Roles == {"ADMIN", "MANAGER", "TECH"}

Member(id, r, st) == [user_id |-> id, role |-> r, status |-> st]

\* api.listOrgMembers(orgId): what the server can answer for the one member
\* of the organization
MemberLists ==
  { <<Member(7, "TECH", "ACTIVE")>>,
    <<Member(7, "ADMIN", "ACTIVE")>>,
    <<Member(7, "TECH", "DISABLED")>> }

\* what the user can type into the email input
EmailTexts == {<<>>, <<" ">>, <<"a">>}

Idle == [status |-> "idle", variables |-> <<>>]
Pending(v) == [status |-> "pending", variables |-> <<v>>]
SettledAs(st) == [status |-> st, variables |-> <<>>]

\* the page's content is on screen
AdminUsable ==
  /\ page = "admin"
  /\ PageView.class = "content"

\* ... and no modal dialog is over it
AdminPageOperable ==
  /\ AdminUsable
  /\ ~inviteModalOpen
  /\ ~reviewModalOpen

\* the Invite Member button
OpenInviteModal ==
  /\ AdminPageOperable
  /\ inviteModalOpen' = TRUE
  /\ UNCHANGED <<members, inviteEmail, inviteRole, createInvite, updateRole,
                 disableMember, sharedVars, lastToast, outsideMembersCard>>

SetInviteEmail ==
  \E t \in EmailTexts :
    /\ AdminUsable
    /\ inviteModalOpen
    /\ inviteEmail' = t
    /\ UNCHANGED <<members, inviteModalOpen, inviteRole, createInvite,
                   updateRole, disableMember, sharedVars, lastToast,
                   outsideMembersCard>>

SetInviteRole ==
  \E r \in Roles :
    /\ AdminUsable
    /\ inviteModalOpen
    /\ inviteRole' = r
    /\ UNCHANGED <<members, inviteModalOpen, inviteEmail, createInvite,
                   updateRole, disableMember, sharedVars, lastToast,
                   outsideMembersCard>>

\* the Cancel button (disabled while the invitation is pending) and the
\* dialog's own dismissal: setInviteModalOpen(false)
InviteClose ==
  /\ AdminUsable
  /\ inviteModalOpen
  /\ inviteModalOpen' = FALSE
  /\ UNCHANGED <<members, inviteEmail, inviteRole, createInvite, updateRole,
                 disableMember, sharedVars, lastToast, outsideMembersCard>>

\* the invite form's submit; `required` keeps an empty input from submitting
handleInvite ==
  /\ AdminUsable
  /\ inviteModalOpen
  /\ createInvite.status # "pending"
  /\ inviteEmail # <<>>
  /\ IF Trim(inviteEmail) = <<>>
     THEN /\ lastToast' = "error: Email is required"
          /\ UNCHANGED <<createInvite, pendingCalls>>
     ELSE /\ CanCall("createInvite")
          /\ createInvite' = Pending([email |-> Trim(inviteEmail),
                                      role |-> inviteRole])
          /\ pendingCalls' = Mutate("createInvite")
          /\ lastToast' = ""
  /\ UNCHANGED <<members, inviteModalOpen, inviteEmail, inviteRole,
                 updateRole, disableMember, invalidated, outsideMembersCard>>

\* createInviteMutation.onSuccess
CreateInviteSuccess ==
  /\ createInvite.status = "pending"
  /\ createInvite' = SettledAs("success")
  /\ pendingCalls' = Settled("createInvite")
  /\ lastToast' = "success: Invitation sent successfully"
  /\ inviteModalOpen' = FALSE
  /\ inviteEmail' = <<>>
  /\ invalidated' = invalidated \cup {"org-members"}
  /\ UNCHANGED <<members, inviteRole, updateRole, disableMember,
                 outsideMembersCard>>

\* createInviteMutation.onError
CreateInviteError ==
  /\ createInvite.status = "pending"
  /\ createInvite' = SettledAs("error")
  /\ pendingCalls' = Settled("createInvite")
  /\ lastToast' = "error: Failed to send invitation"
  /\ UNCHANGED <<members, inviteModalOpen, inviteEmail, inviteRole,
                 updateRole, disableMember, invalidated, outsideMembersCard>>

\* the role Select of an ACTIVE member's row
ChangeRole ==
  \E i \in 1..Len(members), r \in Roles :
    /\ AdminPageOperable
    /\ members[i].status = "ACTIVE"
    /\ r # members[i].role
    /\ updateRole.status # "pending"
    /\ CanCall("updateRole")
    /\ updateRole' = Pending([userId |-> members[i].user_id, role |-> r])
    /\ pendingCalls' = Mutate("updateRole")
    /\ lastToast' = ""
    /\ UNCHANGED <<members, inviteModalOpen, inviteEmail, inviteRole,
                   createInvite, disableMember, invalidated,
                   outsideMembersCard>>

\* updateRoleMutation settles: onSuccess, onError
UpdateRoleSettles ==
  \E ok \in BOOLEAN :
    /\ updateRole.status = "pending"
    /\ updateRole' = SettledAs(IF ok THEN "success" ELSE "error")
    /\ pendingCalls' = Settled("updateRole")
    /\ lastToast' = IF ok THEN "success: Role updated successfully"
                    ELSE "error: Failed to update role"
    /\ invalidated' = IF ok THEN invalidated \cup {"org-members"}
                      ELSE invalidated
    /\ UNCHANGED <<members, inviteModalOpen, inviteEmail, inviteRole,
                   createInvite, disableMember, outsideMembersCard>>

\* the Disable button of an ACTIVE member's row
DisableMember ==
  \E i \in 1..Len(members) :
    /\ AdminPageOperable
    /\ members[i].status = "ACTIVE"
    /\ disableMember.status # "pending"
    /\ CanCall("disableMember")
    /\ disableMember' = Pending(members[i].user_id)
    /\ pendingCalls' = Mutate("disableMember")
    /\ lastToast' = ""
    /\ UNCHANGED <<members, inviteModalOpen, inviteEmail, inviteRole,
                   createInvite, updateRole, invalidated,
                   outsideMembersCard>>

\* disableMemberMutation settles: onSuccess, onError
DisableMemberSettles ==
  \E ok \in BOOLEAN :
    /\ disableMember.status = "pending"
    /\ disableMember' = SettledAs(IF ok THEN "success" ELSE "error")
    /\ pendingCalls' = Settled("disableMember")
    /\ lastToast' = IF ok THEN "success: Member disabled successfully"
                    ELSE "error: Failed to disable member"
    /\ invalidated' = IF ok THEN invalidated \cup {"org-members"}
                      ELSE invalidated
    /\ UNCHANGED <<members, inviteModalOpen, inviteEmail, inviteRole,
                   createInvite, updateRole, outsideMembersCard>>

\* the refetch of the invalidated ["org-members", orgId] query settles with
\* the members as the server holds them by then (an organization without
\* listed members stays so); a failed refetch keeps the rows it had
MembersRefetched ==
  \E rows \in (IF members = <<>> THEN {} ELSE MemberLists) \cup {members} :
    /\ page = "admin"
    /\ "org-members" \in invalidated
    /\ invalidated' = invalidated \ {"org-members"}
    /\ members' = rows
    /\ UNCHANGED <<inviteModalOpen, inviteEmail, inviteRole, createInvite,
                   updateRole, disableMember, pendingCalls, lastToast,
                   outsideMembersCard>>

\* ------------------------------- organization admin page: join requests

RequestIds == {1, 2}
Decisions == {"APPROVED", "REJECTED"}
NoNotes == "(none)"

\* what the user can type into the review notes
NotesTexts == {"", "ok"}

\* api.listOrgRequests() answered from the server's state
ListOrgRequests(st) == [i \in 1..2 |-> [id |-> i, status |-> st[i]]]

\* the Approve and Reject buttons of a row displayed as PENDING
ReviewOpen ==
  \E i \in 1..Len(orgRequests), d \in Decisions :
    /\ AdminPageOperable
    /\ orgRequests[i].status = "PENDING"
    /\ selectedRequest' = <<orgRequests[i]>>
    /\ reviewAction' = d
    /\ reviewModalOpen' = TRUE
    /\ UNCHANGED <<orgRequests, requestStatus, reviewNotes, reviewRequest,
                   sharedVars, lastToast, outsideRequestsCard>>

\* the notes textarea, rendered while a request is selected
SetReviewNotes ==
  \E t \in NotesTexts :
    /\ AdminUsable
    /\ reviewModalOpen
    /\ selectedRequest # <<>>
    /\ reviewNotes' = t
    /\ UNCHANGED <<orgRequests, requestStatus, reviewModalOpen,
                   selectedRequest, reviewAction, reviewRequest, sharedVars,
                   lastToast, outsideRequestsCard>>

\* the review dialog's Cancel button
ReviewCancel ==
  /\ AdminUsable
  /\ reviewModalOpen
  /\ reviewRequest.status # "pending"
  /\ reviewModalOpen' = FALSE
  /\ selectedRequest' = <<>>
  /\ reviewNotes' = ""
  /\ UNCHANGED <<orgRequests, requestStatus, reviewAction, reviewRequest,
                 sharedVars, lastToast, outsideRequestsCard>>

\* the dialog's own dismissal: setReviewModalOpen(false)
ReviewDismiss ==
  /\ AdminUsable
  /\ reviewModalOpen
  /\ reviewModalOpen' = FALSE
  /\ UNCHANGED <<orgRequests, requestStatus, selectedRequest, reviewNotes,
                 reviewAction, reviewRequest, sharedVars, lastToast,
                 outsideRequestsCard>>

\* the variables of the review the confirm button submits
ReviewVariables_Approving ==
  [ requestId |-> selectedRequest[1].id,
    status    |-> "APPROVED",
    notes     |-> IF reviewNotes = "" THEN NoNotes ELSE reviewNotes ]

ReviewVariables ==
  [ requestId |-> selectedRequest[1].id,
    status    |-> reviewAction,
    notes     |-> IF reviewNotes = "" THEN NoNotes ELSE reviewNotes ]

\* the review dialog's confirm button
ReviewConfirm ==
  /\ AdminUsable
  /\ reviewModalOpen
  /\ reviewRequest.status # "pending"
  /\ IF selectedRequest = <<>>
     THEN UNCHANGED <<reviewRequest, pendingCalls, lastToast>>
     ELSE /\ CanCall("reviewRequest")
          /\ reviewRequest' = Pending(ReviewVariables)
          /\ pendingCalls' = Mutate("reviewRequest")
          /\ lastToast' = ""
  /\ UNCHANGED <<orgRequests, requestStatus, reviewDialog, invalidated,
                 outsideRequestsCard>>

\* api.reviewOrgRequest resolves, the server holding the request as
\* decided; reviewRequestMutation.onSuccess
ReviewSuccess ==
  /\ reviewRequest.status = "pending"
  /\ LET v == reviewRequest.variables[1] IN
       requestStatus' = [requestStatus EXCEPT ![v.requestId] = v.status]
  /\ reviewRequest' = SettledAs("success")
  /\ pendingCalls' = Settled("reviewRequest")
  /\ lastToast' = "success: Organization request reviewed successfully"
  /\ reviewModalOpen' = FALSE
  /\ selectedRequest' = <<>>
  /\ reviewNotes' = ""
  /\ invalidated' = invalidated \cup {"org-requests", "me"}
  /\ UNCHANGED <<orgRequests, reviewAction, outsideRequestsCard>>

\* api.reviewOrgRequest rejects; reviewRequestMutation.onError
ReviewError ==
  /\ reviewRequest.status = "pending"
  /\ reviewRequest' = SettledAs("error")
  /\ pendingCalls' = Settled("reviewRequest")
  /\ lastToast' = "error: Failed to review request"
  /\ UNCHANGED <<orgRequests, requestStatus, reviewDialog, invalidated,
                 outsideRequestsCard>>

\* the refetch of an invalidated ["org-requests"] or ["me"] query settles;
\* a failed refetch keeps the data it had, and the identity is as before
RequestsRefetched ==
  \E key \in {"org-requests", "me"}, ok \in BOOLEAN :
    /\ page = "admin"
    /\ key \in invalidated
    /\ invalidated' = invalidated \ {key}
    /\ orgRequests' = IF key = "org-requests" /\ ok
                      THEN ListOrgRequests(requestStatus)
                      ELSE orgRequests
    /\ UNCHANGED <<requestStatus, reviewDialog, reviewRequest, pendingCalls,
                   lastToast, outsideRequestsCard>>

\* an administrator of organization 1 has opened the admin page; no dialog
\* is open and no mutation has run
AdminOpened ==
  /\ isLoaded = TRUE
  /\ isSignedIn = TRUE
  /\ user = [is_super_admin |-> FALSE,
             memberships |-> <<Membership(1, "ADMIN", "ACTIVE")>>]
  /\ meStatus = "success"
  /\ meFetching = FALSE
  /\ meFailureCount = 0
  /\ meRetry = MeRetry("admin")
  /\ meData = <<user>>
  /\ orgId = 1
  /\ localStorage = StoredBySet(orgId)
  /\ providerMounted = TRUE
  /\ lastSetOrgId = <<>>
  /\ page = "admin"
  /\ inflight = NoQueries
  /\ billing = <<>>
  /\ view = PageView
  /\ inviteModalOpen = FALSE
  /\ inviteEmail = <<>>
  /\ inviteRole = "TECH"
  /\ createInvite = Idle
  /\ updateRole = Idle
  /\ disableMember = Idle
  /\ reviewModalOpen = FALSE
  /\ selectedRequest = <<>>
  /\ reviewNotes = ""
  /\ reviewAction = "APPROVED"
  /\ reviewRequest = Idle

\* both lists are loaded: either the organization has a member and there are
\* no join requests, or no member is listed and there are two requests, one
\* pending and one approved earlier
AdminInit ==
  /\ AdminOpened
  /\ \/ /\ members \in MemberLists
        /\ requestStatus = [i \in RequestIds |-> "APPROVED"]
        /\ orgRequests = <<>>
     \/ /\ members = <<>>
        /\ requestStatus = [i \in RequestIds |->
                              IF i = 1 THEN "PENDING" ELSE "APPROVED"]
        /\ orgRequests = ListOrgRequests(requestStatus)

\* no member is listed and two join requests are pending
ReviewInit ==
  /\ AdminOpened
  /\ members = <<>>
  /\ requestStatus = [i \in RequestIds |-> "PENDING"]
  /\ orgRequests = ListOrgRequests(requestStatus)

\* the join requests card and the review dialog
ReviewNext ==
  \/ ReviewOpen
  \/ SetReviewNotes
  \/ ReviewCancel
  \/ ReviewDismiss
  \/ ReviewConfirm
  \/ ReviewSuccess
  \/ ReviewError
  \/ RequestsRefetched

AdminNext ==
  \/ OpenInviteModal
  \/ SetInviteEmail
  \/ SetInviteRole
  \/ InviteClose
  \/ handleInvite
  \/ CreateInviteSuccess
  \/ CreateInviteError
  \/ ChangeRole
  \/ UpdateRoleSettles
  \/ DisableMember
  \/ DisableMemberSettles
  \/ MembersRefetched
  \/ ReviewOpen
  \/ SetReviewNotes
  \/ ReviewCancel
  \/ ReviewDismiss
  \/ ReviewConfirm
  \/ ReviewSuccess
  \/ ReviewError
  \/ RequestsRefetched

\* --------------------------------- console: calls that outlive the page

\* the super admin leaves the console and comes back: the page is mounted
\* anew with a mutation that has never run, the cached rows are shown while
\* they are refetched, and a toggle call in flight stays in flight
ConsoleRemount ==
  /\ ConsoleUsable
  /\ unmounted' = IF toggleStatus.status = "pending"
                  THEN Append(unmounted, toggleStatus.orgId)
                  ELSE unmounted
  /\ toggleStatus' = [status |-> "idle", orgId |-> Null]
  /\ invalidated' = invalidated \cup {"all-orgs"}
  /\ UNCHANGED <<allOrgs, serverActive, pendingCalls, lastToast,
                 outsideConsoleCalls>>

\* a toggle call of an unmounted page instance settles: its callbacks still
\* show the toast and invalidate the list
ToggleSettlesUnmounted ==
  \E i \in 1..Len(unmounted), ok \in BOOLEAN :
    LET id == unmounted[i] IN
    /\ unmounted' = SubSeq(unmounted, 1, i - 1)
                      \o SubSeq(unmounted, i + 1, Len(unmounted))
    /\ pendingCalls' = Settled("toggleStatus")
    /\ serverActive' = IF ok THEN [serverActive EXCEPT ![id] = ~@]
                       ELSE serverActive
    /\ lastToast' = IF ok THEN ToggleToast(ConsoleOrg(id, serverActive'[id]))
                    ELSE "error: Failed to toggle organization status"
    /\ invalidated' = IF ok THEN invalidated \cup {"all-orgs"}
                      ELSE invalidated
    /\ UNCHANGED <<allOrgs, toggleStatus, outsideConsoleCalls>>

\* ------------------------------------------------ billing page: the portal

\* the Manage Billing button, rendered when the billing loaded has a status
\* (taken to have one)
PortalClick ==
  /\ page = "admin-billing"
  /\ PageView.class = "content"
  /\ billing # <<>>
  /\ checkout.status # "redirected"
  /\ portal \notin {"pending", "redirected"}
  /\ CanCall("portal")
  /\ portal' = "pending"
  /\ pendingCalls' = Mutate("portal")
  /\ lastToast' = ""
  /\ UNCHANGED outsidePortal

\* createPortalSession resolves: the browser leaves for data.url if there is
\* one
PortalSuccess ==
  \E hasUrl \in BOOLEAN :
    /\ portal = "pending"
    /\ portal' = IF hasUrl THEN "redirected" ELSE "success"
    /\ pendingCalls' = Settled("portal")
    /\ lastToast' = ""
    /\ UNCHANGED outsidePortal

\* createPortalSession rejects
PortalError ==
  /\ portal = "pending"
  /\ portal' = "error"
  /\ pendingCalls' = Settled("portal")
  /\ lastToast' = "error: Failed to open billing portal"
  /\ UNCHANGED outsidePortal

\* ------------------------------------------------- accepting an invitation

\* what the user can type into the invite-code input
TokenTexts == {<<>>, <<"k">>}

\* onSuccess of both accept mutations: setOrgId(membership.org_id) and
\* router.push("/")
Joined(o) ==
  /\ orgId' = o
  /\ localStorage' = StoredBySet(o)
  /\ lastSetOrgId' = <<o>>
  /\ page' = "landing"
  /\ UNCHANGED <<isLoaded, isSignedIn, user, meStatus, meFetching,
                 meFailureCount, meRetry, meData, inflight, billing,
                 providerMounted>>
  /\ Rerender

NotJoined ==
  UNCHANGED <<gateVars, storageVars>>

\* onboarding, the Use Invite Code tab: the input
SetInviteToken ==
  \E t \in TokenTexts :
    /\ FormUsable
    /\ inviteToken' = t
    /\ NotJoined
    /\ UNCHANGED <<acceptInviteCode, accepting, acceptInvite, sharedVars,
                   lastToast, outsideJoin>>

\* onboarding: the invite form's submit; `required` keeps an empty input
\* from submitting
handleAcceptInvite ==
  /\ FormUsable
  /\ acceptInviteCode # "pending"
  /\ inviteToken # <<>>
  /\ IF Trim(inviteToken) = <<>>
     THEN /\ lastToast' = "error: Invite code is required"
          /\ UNCHANGED <<acceptInviteCode, pendingCalls>>
     ELSE /\ CanCall("acceptInviteCode")
          /\ acceptInviteCode' = "pending"
          /\ pendingCalls' = Mutate("acceptInviteCode")
          /\ lastToast' = ""
  /\ NotJoined
  /\ UNCHANGED <<inviteToken, accepting, acceptInvite, outsideJoin>>

\* onboarding: acceptInviteMutation.onSuccess
AcceptInviteCodeSuccess ==
  \E o \in OrgIds :
    /\ acceptInviteCode = "pending"
    /\ acceptInviteCode' = "success"
    /\ pendingCalls' = Settled("acceptInviteCode")
    /\ lastToast' = "success: Invite accepted successfully!"
    /\ Joined(o)
    /\ UNCHANGED <<inviteToken, accepting, acceptInvite, outsideJoin>>

\* onboarding: acceptInviteMutation.onError
AcceptInviteCodeError ==
  /\ acceptInviteCode = "pending"
  /\ acceptInviteCode' = "error"
  /\ pendingCalls' = Settled("acceptInviteCode")
  /\ lastToast' = "error: Failed to accept invite"
  /\ NotJoined
  /\ UNCHANGED <<inviteToken, accepting, acceptInvite, outsideJoin>>

\* ------------------------------------------------------------- useOrg

\* useContext(OrgContext): the provider's value for a component below an
\* OrgProvider, the default `undefined` (<<>>) for any other
OrgContextValue(under) ==
  IF under THEN <<[orgId |-> orgId, setOrgId |-> "setOrgId"]>> ELSE <<>>

\* useOrg: what the call returns, or the error it throws
useOrg_Default(context) ==
  IF context = <<>>
  THEN [threw |-> FALSE, value |-> [orgId |-> Null, setOrgId |-> "noop"]]
  ELSE [threw |-> FALSE, value |-> context[1]]

useOrg(context) ==
  IF context = <<>>
  THEN [threw |-> TRUE, message |-> "useOrg must be used within OrgProvider"]
  ELSE [threw |-> FALSE, value |-> context[1]]

\* a component that calls useOrg renders, below the provider or not
ConsumerRenders ==
  \E under \in BOOLEAN :
    /\ consumed' = <<[under |-> under, got |-> useOrg(OrgContextValue(under))]>>
    /\ UNCHANGED <<overrideVars, gateVars, planVars, onboardingVars,
                   lastToast, sharedVars, storageVars, consoleVars,
                   editorVars, adminVars, restVars, linkVars, tabVars,
                   importVars>>

UseOrgNext ==
  \/ OrgProviderMount
  \/ setOrgId
  \/ Reload
  \/ ConsumerRenders

\* ------------------------------------- a second tab on the same storage

outsideTabs == <<overrideVars, gateVars, planVars, onboardingVars, lastToast,
                 sharedVars, providerMounted, consoleVars, editorVars,
                 adminVars, restVars, linkVars, importVars, hookVars>>

\* the other tab's provider runs its mount effect: it reads the shared item
OtherProviderMount ==
  /\ ~otherMounted
  /\ otherMounted' = TRUE
  /\ otherOrgId' = LoadedOrgId(localStorage)
  /\ UNCHANGED <<localStorage, lastSetOrgId, outsideTabs>>

\* setOrgId(id) in the other tab: its own state and the shared item; this
\* tab has no storage-event listener
OtherSetOrgId_Synced ==
  \E id \in SetIds :
    /\ otherMounted
    /\ otherOrgId' = id
    /\ localStorage' = StoredBySet(id)
    /\ lastSetOrgId' = <<id>>
    /\ orgId' = IF providerMounted THEN id ELSE orgId
    /\ UNCHANGED <<isLoaded, isSignedIn, user, meStatus, meFetching,
                   meFailureCount, meRetry, meData, page, view, inflight,
                   billing>>
    /\ UNCHANGED <<overrideVars, planVars, onboardingVars, lastToast,
                   sharedVars, providerMounted, consoleVars, editorVars,
                   adminVars, restVars, linkVars, importVars, hookVars,
                   otherMounted>>

OtherSetOrgId ==
  \E id \in SetIds :
    /\ otherMounted
    /\ otherOrgId' = id
    /\ localStorage' = StoredBySet(id)
    /\ lastSetOrgId' = <<id>>
    /\ UNCHANGED <<otherMounted, outsideTabs>>

\* the other tab is reloaded
OtherReload ==
  /\ otherMounted
  /\ otherMounted' = FALSE
  /\ otherOrgId' = Null
  /\ UNCHANGED <<localStorage, lastSetOrgId, outsideTabs>>

\* what the other tab does
OtherTabNext ==
  \/ OtherProviderMount
  \/ OtherSetOrgId
  \/ OtherReload

\* two tabs have rendered for the first time
TabsInit ==
  /\ StorageInit
  /\ otherOrgId = Null
  /\ otherMounted = FALSE

TabsNext ==
  \/ OrgProviderMount
  \/ setOrgId
  \/ Reload
  \/ OtherProviderMount
  \/ OtherSetOrgId
  \/ OtherReload

\* ------------------------------------------------------ the import dialog

outsideImport == <<overrideVars, gateVars, planVars, onboardingVars,
                   lastToast, invalidated, storageVars, consoleVars,
                   editorVars, adminVars, restVars, linkVars, tabVars,
                   hookVars>>

\* the names of the files the user may pick, as their characters ("csv" and
\* the like stand for the letters of an extension)
FileNames ==
  { <<"a", ".", "csv">>, <<"b", ".", "CSV">>, <<"a", ".", "b", ".", "XLSX">>,
    <<".", "xls">>, <<"a", ".", "txt">>, <<"csv">>, <<"xls", ".">>,
    <<"a", ".", "csv", ".", "txt">> }

\* String.prototype.toLowerCase, per character
LowerChar(c) ==
  CASE c = "XLSX" -> "xlsx"
    [] c = "CSV"  -> "csv"
    [] OTHER      -> c

toLowerCase(s) == [i \in 1..Len(s) |-> LowerChar(s[i])]

\* String.prototype.lastIndexOf("."), zero-based, -1 if there is none
RECURSIVE lastIndexOfDot(_)
lastIndexOfDot(s) ==
  IF s = <<>> THEN -1
  ELSE IF s[Len(s)] = "." THEN Len(s) - 1
  ELSE lastIndexOfDot(SubSeq(s, 1, Len(s) - 1))

\* String.prototype.substring(from): a negative index counts as zero
substring(s, from) ==
  SubSeq(s, (IF from < 0 THEN 0 ELSE from) + 1, Len(s))

validExtensions == { <<".", "csv">>, <<".", "xlsx">>, <<".", "xls">> }

\* handleFileSelect: the extension test
ValidFile(name) ==
  substring(toLowerCase(name), lastIndexOfDot(name)) \in validExtensions

\* an ImportResult
ImportResult(ok, created, errors) ==
  [ success       |-> ok,
    created_count |-> Len(created),
    error_count   |-> Len(errors),
    created       |-> created,
    errors        |-> errors ]

\* what onImport may resolve with
ServerResults ==
  { ImportResult(TRUE, <<"Boat 1", "Boat 2">>, <<>>),
    ImportResult(FALSE, <<"Boat 1">>, <<[row |-> 3, error |-> "Bad row"]>>),
    ImportResult(FALSE, <<>>, <<[row |-> 2, error |-> "Bad row"],
                                [row |-> 3, error |-> "Bad row"]>>) }

\* what a callback may throw: <<m>> for a value whose message is m, <<>> for
\* one that has no message
Thrown == { <<"Network error">>, <<"">>, <<>> }

\* error.message || "Import failed"
ErrorMessage_NoFallback(e) ==
  IF e = <<>> THEN "" ELSE e[1]

ErrorMessage(e) ==
  IF e = <<>> \/ e[1] = "" THEN "Import failed" ELSE e[1]

\* the result handleImport's catch block sets
CaughtResult(e) ==
  [ success       |-> FALSE,
    created_count |-> 0,
    error_count   |-> 1,
    created       |-> <<>>,
    errors        |-> <<[row |-> 0, error |-> ErrorMessage(e)]>> ]

\* the page opens the dialog
ImportOpen ==
  /\ ~importOpen
  /\ importOpen' = TRUE
  /\ lastOutcome' = <<>>
  /\ onSuccessCalls' = <<>>
  /\ UNCHANGED <<file, isImporting, result, pendingCalls, outsideImport>>

\* handleFileSelect: the file input's onChange
handleFileSelect ==
  \E name \in FileNames :
    /\ importOpen
    /\ IF ValidFile(name)
       THEN /\ file' = <<name>>
            /\ result' = <<>>
       ELSE UNCHANGED <<file, result>>
    /\ lastOutcome' = <<>>
    /\ onSuccessCalls' = <<>>
    /\ UNCHANGED <<importOpen, isImporting, pendingCalls, outsideImport>>

\* handleImport up to its await: the Import button, which is rendered while
\* there is no result and disabled without a file or while importing
handleImport ==
  /\ importOpen
  /\ result = <<>>
  /\ file # <<>> /\ ~isImporting
  /\ CanCall("import")
  /\ isImporting' = TRUE
  /\ pendingCalls' = Mutate("import")
  /\ lastOutcome' = <<>>
  /\ onSuccessCalls' = <<>>
  /\ UNCHANGED <<importOpen, file, result, outsideImport>>

\* handleImport after its await, onImport resolved: setResult, onSuccess
\* (which returns or throws into the catch block), finally
ImportResolves ==
  \E R \in ServerResults, callback \in {"returns", "throws"}, e \in Thrown :
    /\ pendingCalls["import"] > 0
    /\ callback = "returns" => e = <<>>
    /\ pendingCalls' = Settled("import")
    /\ lastOutcome' = <<"resolved", R>>
    /\ onSuccessCalls' = <<R>>
    /\ result' = IF callback = "throws" THEN <<CaughtResult(e)>> ELSE <<R>>
    /\ isImporting' = FALSE
    /\ UNCHANGED <<importOpen, file, outsideImport>>

\* handleImport after its await, onImport rejected: catch, finally
ImportRejects ==
  \E e \in Thrown :
    /\ pendingCalls["import"] > 0
    /\ pendingCalls' = Settled("import")
    /\ lastOutcome' = <<"rejected", e>>
    /\ onSuccessCalls' = <<>>
    /\ result' = <<CaughtResult(e)>>
    /\ isImporting' = FALSE
    /\ UNCHANGED <<importOpen, file, outsideImport>>

\* handleClose: clear the file and the result, tell the page to close
CloseImport ==
  /\ file' = <<>>
  /\ result' = <<>>
  /\ importOpen' = FALSE
  /\ lastOutcome' = <<>>
  /\ onSuccessCalls' = <<>>
  /\ UNCHANGED <<isImporting, pendingCalls, outsideImport>>

\* the Cancel / Close button, disabled while importing
handleClose ==
  /\ importOpen
  /\ ~isImporting
  /\ CloseImport

\* the dialog's onOpenChange: escape key, click outside, close icon
ImportDismiss ==
  /\ importOpen
  /\ CloseImport

\* the page that renders the dialog has mounted; the dialog is closed
ImportInit ==
  /\ importOpen = FALSE
  /\ file = <<>>
  /\ isImporting = FALSE
  /\ result = <<>>
  /\ lastOutcome = <<>>
  /\ onSuccessCalls = <<>>

ImportNext ==
  \/ ImportOpen
  \/ handleFileSelect
  \/ handleImport
  \/ ImportResolves
  \/ ImportRejects
  \/ handleClose
  \/ ImportDismiss

\* what an invitation token is made of, and the tokens a link may carry
TokenChars == {"a", "b"}

LinkTokens == UNION { [1..n -> TokenChars] : n \in 1..MaxTokenLen }

\* the route /invite/[token]
InviteUrl(t) == <<"/invite/">> \o t

\* `/sign-in?redirect_url=/invite/${token}`
SignInUrl_NoReturn(t) == <<"/sign-in">>

SignInUrl(t) == <<"/sign-in", "?", "redirect_url", "=">> \o InviteUrl(t)

RECURSIVE TakeUntil(_, _)
TakeUntil(cs, stops) ==
  IF cs = <<>> \/ Head(cs) \in stops THEN <<>>
  ELSE <<Head(cs)>> \o TakeUntil(Tail(cs), stops)

\* what the sign-in page reads from its URL: the value of the redirect_url
\* query parameter, which ends at the next parameter or the fragment; the
\* home page without one
RedirectUrl(url) ==
  IF Len(url) >= 4 /\ SubSeq(url, 2, 4) = <<"?", "redirect_url", "=">>
  THEN TakeUntil(SubSeq(url, 5, Len(url)), {"&", "#"})
  ELSE <<"/">>

\* router.push to the sign-in page: the invite page is left
PushSignIn ==
  /\ page' = "sign-in"
  /\ navigations' = Append(navigations, SignInUrl(pathToken))
  /\ UNCHANGED <<isLoaded, isSignedIn, user, meStatus, meFetching,
                 meFailureCount, meRetry, meData, orgId, inflight, billing,
                 storageVars>>
  /\ Rerender

\* invite page: the effect that sends a visitor who is not signed in to the
\* sign-in page
RedirectToSignIn ==
  /\ page = "invite"
  /\ isLoaded /\ ~isSignedIn
  /\ PushSignIn
  /\ UNCHANGED <<pathToken, acceptTokens, joinVars, sharedVars, lastToast,
                 outsideInvite>>

\* the sign-in page: the visitor completes the sign-in and is sent to the
\* URL given as redirect_url
SignInCompletes ==
  /\ page = "sign-in"
  /\ ~isSignedIn
  /\ LET back == RedirectUrl(navigations[Len(navigations)])
         invite == Len(back) > 1 /\ Head(back) = "/invite/"
     IN  /\ navigations' = Append(navigations, back)
         /\ page' = IF invite THEN "invite" ELSE "landing"
         /\ pathToken' = IF invite THEN Tail(back) ELSE <<>>
  /\ isSignedIn' = TRUE
  /\ UNCHANGED <<isLoaded, user, meData, orgId, inflight, billing,
                 storageVars>>
  /\ StartMeFetch
  /\ Rerender
  /\ UNCHANGED <<acceptTokens, joinVars, sharedVars, lastToast,
                 outsideInvite>>

\* invite page: the button; Sign In to Accept for a visitor who is not
\* signed in, Accept Invitation (disabled while accepting) otherwise
handleAccept ==
  /\ page = "invite"
  /\ isLoaded
  /\ IF ~isSignedIn
     THEN /\ PushSignIn
          /\ lastToast' = ""
          /\ UNCHANGED <<accepting, acceptInvite, pendingCalls,
                         acceptTokens>>
     ELSE /\ ~(accepting \/ acceptInvite = "pending")
          /\ CanCall("acceptInvite")
          /\ accepting' = TRUE
          /\ acceptInvite' = "pending"
          /\ pendingCalls' = Mutate("acceptInvite")
          /\ acceptTokens' = acceptTokens \cup {pathToken}
          /\ lastToast' = ""
          /\ NotJoined
          /\ UNCHANGED navigations
  /\ UNCHANGED <<pathToken, inviteToken, acceptInviteCode, invalidated,
                 outsideInvite>>

\* invite page: acceptMutation.onSuccess
AcceptSuccess ==
  \E o \in OrgIds :
    /\ acceptInvite = "pending"
    /\ acceptInvite' = "success"
    /\ pendingCalls' = Settled("acceptInvite")
    /\ lastToast' = "success: Invitation accepted successfully"
    /\ Joined(o)
    /\ UNCHANGED <<inviteToken, acceptInviteCode, accepting, outsideJoin>>

\* invite page: acceptMutation.onError
AcceptError ==
  /\ acceptInvite = "pending"
  /\ acceptInvite' = "error"
  /\ pendingCalls' = Settled("acceptInvite")
  /\ lastToast' = "error: Failed to accept invitation"
  /\ accepting' = FALSE
  /\ NotJoined
  /\ UNCHANGED <<inviteToken, acceptInviteCode, outsideJoin>>

\* a visitor has opened an invitation link; the identity is not loaded yet
InviteLinkInit ==
  /\ isLoaded = FALSE
  /\ isSignedIn = FALSE
  /\ user = [is_super_admin |-> FALSE, memberships |-> <<>>]
  /\ meStatus = "pending"
  /\ meFetching = FALSE
  /\ meFailureCount = 0
  /\ meRetry = 0
  /\ meData = <<>>
  /\ orgId = Null
  /\ page = "invite"
  /\ inflight = NoQueries
  /\ billing = <<>>
  /\ view = PageView
  /\ pathToken \in LinkTokens
  /\ navigations = <<>>
  /\ acceptTokens = {}

\* a signed-in visitor has opened an invitation link
InviteInit ==
  /\ isLoaded = TRUE
  /\ isSignedIn = TRUE
  /\ user = [is_super_admin |-> FALSE, memberships |-> <<>>]
  /\ meStatus = "success"
  /\ meFetching = FALSE
  /\ meFailureCount = 0
  /\ meRetry = 0
  /\ meData = <<user>>
  /\ orgId = Null
  /\ page = "invite"
  /\ inflight = NoQueries
  /\ billing = <<>>
  /\ view = PageView

\* ------------------------------------------------------ specifications

\* the subsystems a specification does not exercise stay as they start
OverrideIdle ==
  /\ now = 0
  /\ org = [ billing_override_enabled |-> FALSE,
             billing_override_vessel_limit |-> Null,
             billing_override_expires_at |-> Null,
             plan_limit |-> 3 ]
  /\ row = <<>>
  /\ orgBilling = <<>>
  /\ orgBillingView = OrgBillingRender(<<>>)

GateIdle ==
  /\ isLoaded = FALSE
  /\ isSignedIn = FALSE
  /\ user = [is_super_admin |-> FALSE, memberships |-> <<>>]
  /\ meStatus = "pending"
  /\ meFetching = FALSE
  /\ meFailureCount = 0
  /\ meRetry = 0
  /\ meData = <<>>
  /\ orgId = Null
  /\ page = "landing"
  /\ view = PageView
  /\ inflight = NoQueries
  /\ billing = <<>>

PlansIdle ==
  /\ checkout = [status |-> "idle", plan |-> ""]
  /\ cards = <<>>

SharedIdle ==
  /\ pendingCalls = NoCalls
  /\ invalidated = {}

\* a provider that found no stored id
StorageIdle ==
  /\ localStorage = <<>>
  /\ providerMounted = TRUE
  /\ lastSetOrgId = <<>>

ConsoleIdle ==
  /\ allOrgs = <<>>
  /\ serverActive = [id \in OrgIds |-> TRUE]
  /\ toggleStatus = [status |-> "idle", orgId |-> Null]

EditorIdle ==
  /\ searchOrgs = <<>>
  /\ editModalOpen = FALSE
  /\ selectedOrg = <<>>
  /\ overrideEnabled = FALSE
  /\ vesselLimit = <<>>
  /\ expiresAt = <<>>
  /\ reason = ""
  /\ updateBilling = [status |-> "idle", variables |-> <<>>]

AdminIdle ==
  /\ members = <<>>
  /\ inviteModalOpen = FALSE
  /\ inviteEmail = <<>>
  /\ inviteRole = "TECH"
  /\ createInvite = Idle
  /\ updateRole = Idle
  /\ disableMember = Idle
  /\ orgRequests = <<>>
  /\ requestStatus = [i \in RequestIds |-> "APPROVED"]
  /\ reviewModalOpen = FALSE
  /\ selectedRequest = <<>>
  /\ reviewNotes = ""
  /\ reviewAction = "APPROVED"
  /\ reviewRequest = Idle

RestIdle ==
  /\ inviteToken = <<>>
  /\ acceptInviteCode = "idle"
  /\ accepting = FALSE
  /\ acceptInvite = "idle"
  /\ portal = "idle"
  /\ unmounted = <<>>

LinkIdle ==
  /\ pathToken = <<>>
  /\ navigations = <<>>
  /\ acceptTokens = {}

TabIdle ==
  /\ otherOrgId = Null
  /\ otherMounted = FALSE

ImportIdle ==
  /\ importOpen = FALSE
  /\ file = <<>>
  /\ isImporting = FALSE
  /\ result = <<>>
  /\ lastOutcome = <<>>
  /\ onSuccessCalls = <<>>

HookIdle == consumed = <<>>

LateIdle == LinkIdle /\ TabIdle /\ ImportIdle /\ HookIdle

\* the pages before they are opened
PagesIdle == ConsoleIdle /\ EditorIdle /\ AdminIdle /\ RestIdle /\ LateIdle

OnboardingIdle ==
  /\ orgName = <<>>
  /\ pendingOrgName = <<>>
  /\ duplicateConfirmOpen = FALSE
  /\ createOrg = [status |-> "idle", name |-> <<>>, force |-> FALSE, error |-> 0]
  /\ createOrgRequest = [status |-> "idle", name |-> <<>>]
  /\ lastToast = ""

\* the gated pages, the identity and the data queries
Init ==
  GateInit /\ OverrideIdle /\ PlansIdle /\ OnboardingIdle /\ SharedIdle
           /\ PagesIdle

Next == GateNext

Spec == Init /\ [][Next]_vars

\* the super-admin org editor's rows and the org billing view
InitOverride ==
  OverrideInit /\ GateIdle /\ PlansIdle /\ OnboardingIdle /\ SharedIdle
               /\ StorageIdle /\ PagesIdle

NextOverride == OverrideNext

SpecOverride == InitOverride /\ [][NextOverride]_vars

\* the onboarding page
InitOnboarding ==
  OnboardingInit /\ OverrideIdle /\ PlansIdle /\ SharedIdle /\ StorageIdle
                 /\ PagesIdle

\* the organization-selection provider and the local storage
InitStorage ==
  StorageInit /\ GateIdle /\ OverrideIdle /\ PlansIdle /\ OnboardingIdle
              /\ SharedIdle /\ PagesIdle

\* the organizations tab of the super-admin console
InitConsole ==
  ConsoleInit /\ OverrideIdle /\ PlansIdle /\ OnboardingIdle /\ SharedIdle
              /\ StorageIdle /\ EditorIdle /\ AdminIdle /\ RestIdle
              /\ LateIdle

NextConsole == ConsoleNext

SpecConsole == InitConsole /\ [][NextConsole]_vars

\* the billing-override dialog of the super-admin organization editor
InitEditor ==
  EditorInit /\ OverrideIdle /\ PlansIdle /\ OnboardingIdle /\ SharedIdle
             /\ StorageIdle /\ ConsoleIdle /\ AdminIdle /\ RestIdle
              /\ LateIdle

NextEditor == EditorNext

SpecEditor == InitEditor /\ [][NextEditor]_vars

\* the organization admin page
InitAdmin ==
  AdminInit /\ OverrideIdle /\ PlansIdle /\ OnboardingIdle /\ SharedIdle
            /\ ConsoleIdle /\ EditorIdle /\ RestIdle
            /\ LateIdle

NextAdmin == AdminNext

SpecAdmin == InitAdmin /\ [][NextAdmin]_vars

\* the console, left and re-entered while calls are in flight
NextRemount ==
  \/ ConsoleNext
  \/ ConsoleRemount
  \/ ToggleSettlesUnmounted

SpecRemount == InitConsole /\ [][NextRemount]_vars

NextStorage == StorageNext

SpecStorage == InitStorage /\ [][NextStorage]_vars

NextOnboarding == OnboardingNext

SpecOnboarding == InitOnboarding /\ [][NextOnboarding]_vars

\* ------------------------------------------- billing override: properties

\* the override of a rendered row is active at instant t
ActiveAt(r, t) ==
  /\ r.org.billing_override_enabled = TRUE
  /\ \/ r.org.billing_override_expires_at = Null
     \/ r.org.billing_override_expires_at > t

OverrideLimitShown(r) ==
  IF r.org.billing_override_vessel_limit = Null
  THEN Text("Unlimited")
  ELSE Num(r.org.billing_override_vessel_limit)

\* C1: the row's badge reads "Active Override" if and only if the override
\* is enabled and its expiry is absent or strictly later than the instant
\* the badge read from the clock; an expiry equal to that instant is shown
\* as "No Override".
C1_BadgeIffActive ==
  row # <<>> =>
    LET r == row[1]
    IN  /\ r.badge \in {"Active Override", "No Override"}
        /\ (r.badge = "Active Override") <=> ActiveAt(r, r.badgeNow)

\* C1 witness: an enabled override whose expiry equals the instant read by
\* the badge has been rendered, as "No Override".
C1_Witness ==
  /\ row # <<>>
  /\ row[1].org.billing_override_enabled
  /\ row[1].org.billing_override_expires_at = row[1].badgeNow
  /\ row[1].badge = "No Override"

C3_HelperAndBadgeAgree ==
  row # <<>> =>
    ((row[1].effectiveLimit # Text("N/A (no override)"))
       <=> (row[1].badge = "Active Override"))

\* the plan cards and the checkout of the billing page
InitPlans ==
  PlansInit /\ OverrideIdle /\ OnboardingIdle /\ SharedIdle /\ StorageIdle
            /\ PagesIdle

SpecPlans == InitPlans /\ [][PlansNext]_vars

\* the invite page
InitInvite ==
  InviteInit /\ OverrideIdle /\ PlansIdle /\ OnboardingIdle /\ SharedIdle
             /\ StorageIdle /\ PagesIdle

\* every page that issues mutations, one of them open
InitMutations ==
  \/ InitConsole
  \/ InitEditor
  \/ InitAdmin
  \/ InitOnboarding
  \/ InitPlans
  \/ InitInvite

NextMutations ==
  \/ ConsoleNext
  \/ EditorNext
  \/ AdminNext
  \/ OnboardingNext
  \/ PlansNext
  \/ PortalClick
  \/ PortalSuccess
  \/ PortalError
  \/ SetInviteToken
  \/ handleAcceptInvite
  \/ AcceptInviteCodeSuccess
  \/ AcceptInviteCodeError
  \/ handleAccept
  \/ AcceptSuccess
  \/ AcceptError

SpecMutations == InitMutations /\ [][NextMutations]_vars

\* the provider, the storage and a component that calls useOrg
InitUseOrg == InitStorage

SpecUseOrg == InitUseOrg /\ [][UseOrgNext]_vars

\* the admin page with two join requests to review
InitReview ==
  ReviewInit /\ OverrideIdle /\ PlansIdle /\ OnboardingIdle /\ SharedIdle
             /\ ConsoleIdle /\ EditorIdle /\ RestIdle /\ LateIdle

SpecReview == InitReview /\ [][ReviewNext]_vars

\* a signed-in user with an ACTIVE membership has loaded the application:
\* the identity is cached, the provider has rendered and its mount effect
\* has yet to read the stored selection, which an earlier session left
HeaderInit ==
  /\ isLoaded = TRUE
  /\ isSignedIn = TRUE
  /\ user \in {u \in Users : Len(ActiveMemberships(<<u>>)) > 0}
  /\ meStatus = "success"
  /\ meFetching = FALSE
  /\ meFailureCount = 0
  /\ meRetry = MeRetry("landing")
  /\ meData = <<user>>
  /\ orgId = Null
  /\ page = "landing"
  /\ view = PageView
  /\ inflight = NoQueries
  /\ billing = <<>>
  /\ StorageInit

InitHeader ==
  HeaderInit /\ OverrideIdle /\ PlansIdle /\ OnboardingIdle /\ SharedIdle
             /\ PagesIdle

NextHeader ==
  \/ OrgProviderMount
  \/ HeaderAutoSelect
  \/ SelectOrg

\* the mount effect and the auto-select effect run once their render has
\* committed
SpecHeader ==
  /\ InitHeader
  /\ [][NextHeader]_vars
  /\ WF_vars(OrgProviderMount)
  /\ WF_vars(HeaderAutoSelect)

\* two tabs of one browser
InitTabs ==
  TabsInit /\ GateIdle /\ OverrideIdle /\ PlansIdle /\ OnboardingIdle
           /\ SharedIdle /\ ConsoleIdle /\ EditorIdle /\ AdminIdle
           /\ RestIdle /\ LinkIdle /\ ImportIdle /\ HookIdle

SpecTabs == InitTabs /\ [][TabsNext]_vars

\* the import dialog of a page
InitImport ==
  ImportInit /\ GateIdle /\ OverrideIdle /\ PlansIdle /\ OnboardingIdle
             /\ SharedIdle /\ StorageIdle /\ ConsoleIdle /\ EditorIdle
             /\ AdminIdle /\ RestIdle /\ LinkIdle /\ TabIdle /\ HookIdle

SpecImport == InitImport /\ [][ImportNext]_vars

\* an invitation link opened by a visitor whose session is not known yet
InitInviteLink ==
  InviteLinkInit /\ OverrideIdle /\ PlansIdle /\ OnboardingIdle /\ SharedIdle
                 /\ StorageIdle /\ ConsoleIdle /\ EditorIdle /\ AdminIdle
                 /\ RestIdle /\ TabIdle /\ ImportIdle /\ HookIdle

NextInviteLink ==
  \/ ClerkLoad
  \/ RedirectToSignIn
  \/ SignInCompletes
  \/ handleAccept
  \/ AcceptSuccess
  \/ AcceptError

\* the redirect is an effect: it runs once its render has committed
SpecInviteLink ==
  InitInviteLink /\ [][NextInviteLink]_vars /\ WF_vars(RedirectToSignIn)

\* --------------------------------------------- gated pages: properties

IdentityGated(p) == p \in {"super-admin", "super-admin-orgs", "admin-billing"}

\* the role or selection the page requires is absent
RoleAbsent(p) ==
  CASE p \in {"super-admin", "super-admin-orgs"} -> ~IsSuperAdmin(meData)
    [] p = "admin-billing" -> orgId = Null \/ ~BillingIsAdmin(meData, orgId)
    [] p = "admin"         -> orgId = Null

\* the view the priority order of the gated-view pattern prescribes
ExpectedClass(p) ==
  IF ~isSignedIn THEN "redirect"
  ELSE IF IdentityGated(p) /\ meStatus = "pending" THEN "loading"
  ELSE IF IdentityGated(p) /\ meStatus = "error" THEN "error"
  ELSE IF RoleAbsent(p) THEN "denied"
  ELSE "content"

\* C4: every administrative page renders the first matching view of the
\* priority order: redirect when not signed in, the loading placeholder
\* while the identity loads, the error message when its fetch failed, the
\* access-denied or select-an-organization placeholder when the role or the
\* selection is absent, the full content otherwise.
C4_GatePriority ==
  page \in AdminPages => view.class = ExpectedClass(page)

SuperAdminQueries == {"all-orgs", "all-users", "search-orgs"}

\* C5: a super-admin data query (all organizations, all users, organization
\* search) in flight was issued in a state where the visitor was signed in
\* and the loaded identity, the visitor's, had is_super_admin = true.
C5_SuperAdminQueriesGated ==
  \A q \in SuperAdminQueries :
    inflight[q] # <<>> =>
      LET s == inflight[q][1]
      IN  /\ s.isSignedIn = TRUE
          /\ s.me = <<user>>
          /\ s.me[1].is_super_admin = TRUE

\* C5 witness: the organization search has been issued, and so has the list
\* of all users on the other page's visit
C5_Witness ==
  /\ inflight["search-orgs"] # <<>>
  /\ page = "super-admin-orgs"
  /\ user.is_super_admin

\* C6: for a signed-in user with no selected organization and no active
\* membership the org admin page shows "Please select an organization" and
\* neither the member list nor the organization-request list is issued.
C6_NoAdminQueriesWithoutOrg ==
  /\ (page = "admin" /\ isSignedIn /\ orgId = Null)
       => view.screen = "Please select an organization"
  /\ \A q \in {"org-members", "org-requests"} :
       ~ /\ inflight[q] # <<>>
         /\ inflight[q][1].orgId = Null
         /\ Len(ActiveMemberships(<<user>>)) = 0

\* C7: the billing-status query is issued only for a user whose membership
\* in the selected organization has role ADMIN.
C7_BillingStatusAdminOnly ==
  inflight["billing-status"] # <<>> =>
    BillingIsAdmin(<<user>>, inflight["billing-status"][1].orgId)

\* ------------------------------------------- plan cards: properties

PlanIndex(id) == CHOOSE i \in 1..Len(PLANS) : PLANS[i].id = id

HasPlan == billing # <<>> /\ billing[1].plan # NoPlan

\* a plan's vessel count exceeds the current effective limit
ExceedsLimit(plan) ==
  /\ plan.vessels.kind = "number"
  /\ billing[1].vessel_limit # Null
  /\ plan.vessels.n > billing[1].vessel_limit

CheckoutButton(upgrade) ==
  IF checkout.status = "pending" THEN "Loading..."
  ELSE IF upgrade THEN "Upgrade" ELSE "Change Plan"

C9_UpgradeByLimit ==
  cards # <<>> =>
    \A i \in 1..Len(PLANS) :
      /\ ~(cards[i].isCurrentPlan /\ cards[i].isUpgrade)
      /\ ~cards[i].isCurrentPlan =>
           (cards[i].isUpgrade <=>
              (PLANS[i].id = "unlimited" \/ ExceedsLimit(PLANS[i])))

\* C9 amended: no card is both current and an upgrade; when the organization
\* has a current plan, a card that is not the current plan is an upgrade
\* exactly when it is the unlimited tier or its vessel count exceeds the
\* current effective limit; when it has no current plan, no card is an
\* upgrade.
C9_UpgradeByLimitWithPlan ==
  cards # <<>> =>
    \A i \in 1..Len(PLANS) :
      /\ ~(cards[i].isCurrentPlan /\ cards[i].isUpgrade)
      /\ (HasPlan /\ ~cards[i].isCurrentPlan) =>
           (cards[i].isUpgrade <=>
              (PLANS[i].id = "unlimited" \/ ExceedsLimit(PLANS[i])))
      /\ ~HasPlan => ~cards[i].isUpgrade

\* C9 witness: on the starter plan with an effective limit of 5 the pro card
\* (10 vessels) is an upgrade and the standard card (5 vessels) is not
C9_Witness ==
  /\ cards # <<>>
  /\ billing[1].plan = "starter"
  /\ billing[1].vessel_limit = 5
  /\ cards[PlanIndex("pro")].isUpgrade
  /\ ~cards[PlanIndex("standard")].isUpgrade
  /\ ~cards[PlanIndex("starter")].isUpgrade

\* ------------------------------------------------ onboarding: properties

\* C10 (as stated): when a creation is rejected with status 409 no toast is
\* shown and the duplicate-confirmation dialog opens showing the name that
\* the rejected request carried; every other failed creation, direct or by
\* request, shows an error toast and does not open the dialog
C10_ConflictShowsSubmittedName ==
  [][ /\ (createOrg.status = "pending" /\ createOrg'.status = "error") =>
           IF createOrg'.error = 409
           THEN /\ lastToast' = ""
                /\ duplicateConfirmOpen'
                /\ pendingOrgName' = createOrg.name
           ELSE /\ lastToast' = "error: Failed to create organization"
                /\ duplicateConfirmOpen' = duplicateConfirmOpen
      /\ (createOrgRequest.status = "pending"
            /\ createOrgRequest'.status = "error") =>
           /\ lastToast' = "error: Failed to submit organization request"
           /\ duplicateConfirmOpen' = duplicateConfirmOpen ]_vars

\* C11 (as stated): whenever the buttons of the open duplicate-confirmation
\* dialog can be pressed, "Create Anyway" submits a creation; that creation
\* is the only one in flight and carries the pending name with force = TRUE;
\* when a forced creation succeeds the dialog is closed, the pending name is
\* cleared and a success toast is shown; Cancel closes the dialog and clears
\* the pending name and submits nothing
C11_ConfirmSubmitsForcedCreation ==
  /\ [](DialogOperable => ConfirmSubmits)
  /\ [][ (DialogOperable /\ createOrg'.status = "pending") =>
           /\ createOrg'.name = pendingOrgName
           /\ createOrg'.force
           /\ pendingCalls'["createOrg"] = 1 ]_vars
  /\ [][ (createOrg.status = "pending" /\ createOrg.force
            /\ createOrg'.status = "success") =>
           /\ ~duplicateConfirmOpen'
           /\ pendingOrgName' = <<>>
           /\ lastToast' = "success: Organization created successfully!" ]_vars
  /\ [][ DialogCancel =>
           /\ ~duplicateConfirmOpen'
           /\ pendingOrgName' = <<>>
           /\ UNCHANGED <<createOrg, createOrgRequest, pendingCalls>> ]_vars

\* ----------------------------------- organization selection: properties

\* the text is the decimal writing of an integer
IsIntegerText(t) == t # <<>> /\ DigitsPrefix(t) = t

\* C12 (as stated): when the provider mounts, the selection becomes the
\* stored value if the stored text is an integer, and stays none (null) in
\* every other case: no entry, the empty text, a text that is no integer
C12_MountAdoptsStoredInteger ==
  [][ (~providerMounted /\ providerMounted') =>
        orgId' = IF localStorage # <<>> /\ IsIntegerText(localStorage[1])
                 THEN DigitsValue(localStorage[1])
                 ELSE Null ]_vars

\* id's decimal text, no entry for null
DecimalTextOf(id) == IF id # Null THEN <<toString(id)>> ELSE <<>>

\* C13 (as stated): after setOrgId(id) the selection in memory is id and the
\* storage holds id's decimal text (no entry for null), and a mounted
\* provider, reloaded or not, holds the id of the last explicit selection
C13_SelectionSurvivesReload ==
  lastSetOrgId # <<>> =>
    /\ localStorage = DecimalTextOf(lastSetOrgId[1])
    /\ providerMounted => orgId = lastSetOrgId[1]

\* ------------------------------------------- identity fetch: properties

\* the pages that gate on identity and ask for one retry
IdentityPages == {"super-admin", "super-admin-orgs"}

\* C18 (as stated): on the super-admin console and the super-admin org
\* editor a failed identity fetch has been attempted exactly twice, the page
\* then renders the terminal error message, and while the visitor stays on
\* the page, signed in, the query stays in error and nothing is refetched
C18_IdentityFetchTwiceThenTerminal ==
  /\ []((page \in IdentityPages /\ isSignedIn /\ meStatus = "error") =>
          /\ meFailureCount = 2
          /\ view.class = "error")
  /\ [][ (page \in IdentityPages /\ meStatus = "error"
            /\ page' = page /\ isSignedIn' = isSignedIn) =>
           (meStatus' = "error" /\ ~meFetching') ]_vars

\* ------------------------------------------ super-admin console: properties

\* C20: when a toggle succeeds the toast reads Organization "<name>" has
\* been disabled, or enabled when the organization returned is active, and
\* the all-organizations list is invalidated; when it fails an error toast
\* is shown and nothing is invalidated
C20_ToggleToastAndInvalidation ==
  [][ /\ (toggleStatus.status = "pending"
            /\ toggleStatus'.status = "success") =>
           /\ lastToast' =
                "success: Organization \""
                   \o ConsoleOrgName(toggleStatus.orgId) \o "\" has been "
                   \o (IF serverActive'[toggleStatus.orgId]
                       THEN "enabled" ELSE "disabled")
           /\ "all-orgs" \in invalidated'
      /\ (toggleStatus.status = "pending"
            /\ toggleStatus'.status = "error") =>
           /\ lastToast' = "error: Failed to toggle organization status"
           /\ invalidated' = invalidated ]_vars

\* C20 witness: a listed active organization was toggled off, the toast says
\* so and the list, still showing it active, awaits its refetch
C20_Witness ==
  /\ toggleStatus.status = "success"
  /\ toggleStatus.orgId = 1
  /\ allOrgs[1].is_active
  /\ ~serverActive[1]
  /\ lastToast = "success: Organization \"Marina Bay\" has been disabled"
  /\ "all-orgs" \in invalidated

\* ------------------------------------ organization editor: properties

\* C19: opening the billing-override editor for an organization sets the
\* switch, the vessel limit, the expiry and the reason from the override
\* state that organization's row holds, whatever an earlier open, edit,
\* cancel or failed save left in the form; being a function of the row
\* alone, two openings for an unchanged organization show the same fields
C19_EditorPrepopulatesFromOrg ==
  [][ (~editModalOpen /\ editModalOpen') =>
        \E i \in 1..Len(searchOrgs) :
          LET o == searchOrgs[i] IN
          /\ selectedOrg' = <<[id |-> o.id, name |-> o.name]>>
          /\ overrideEnabled' = o.billing_override_enabled
          /\ vesselLimit' =
               CASE o.billing_override_vessel_limit = Null -> <<>>
                 [] o.billing_override_vessel_limit = 0 -> <<"0">>
                 [] o.billing_override_vessel_limit = 5 -> <<"5">>
                 [] OTHER -> <<"?">>
          /\ expiresAt' =
               IF o.billing_override_expires_at = Null THEN <<>>
               ELSE <<o.billing_override_expires_at \div 2>>
          /\ reason' =
               IF o.billing_override_reason = NoReason THEN ""
               ELSE o.billing_override_reason ]_vars

\* C19 witness: the dialog was opened for the second organization, edited
\* and saved with no limit, and was cancelled; with that save
\* still in flight the editor is open for the first organization, whose
\* stored limit is 0, and shows the first organization's state
C19_Witness ==
  /\ editModalOpen
  /\ selectedOrg = <<[id |-> 1, name |-> "Marina Bay"]>>
  /\ searchOrgs[1].billing_override_vessel_limit = 0
  /\ updateBilling.status = "pending"
  /\ updateBilling.variables[1].orgId = 2
  /\ updateBilling.variables[1].billing_override_vessel_limit = Null
  /\ overrideEnabled
  /\ vesselLimit = <<"0">>
  /\ expiresAt = <<>>
  /\ reason = ""

\* ------------------------------------- join-request review: properties

\* C16: confirming the review dialog submits one mutation for the selected
\* request, carrying the decision last chosen for it and the notes; when it
\* succeeds the dialog closes, the selected request and the notes are
\* cleared, and the request list and the identity are invalidated
C16_ReviewConfirmAndSuccess ==
  /\ [][ (reviewRequest.status # "pending"
            /\ reviewRequest'.status = "pending") =>
           /\ reviewModalOpen /\ selectedRequest # <<>>
           /\ reviewRequest'.variables =
                << [ requestId |-> selectedRequest[1].id,
                     status    |-> reviewAction,
                     notes     |-> IF reviewNotes = "" THEN NoNotes
                                   ELSE reviewNotes ] >>
           /\ pendingCalls'["reviewRequest"] = 1 ]_vars
  /\ [][ (reviewRequest.status = "pending"
            /\ reviewRequest'.status = "success") =>
           /\ ~reviewModalOpen'
           /\ selectedRequest' = <<>>
           /\ reviewNotes' = ""
           /\ {"org-requests", "me"} \subseteq invalidated' ]_vars
  /\ [][ (~reviewModalOpen /\ reviewModalOpen') =>
           selectedRequest' # <<>> /\ reviewAction' \in Decisions ]_vars
  /\ [][ (reviewAction' # reviewAction) =>
           selectedRequest' # <<>> /\ reviewModalOpen' ]_vars

\* C16 witness: a rejection of the pending request has succeeded: the
\* server holds it as rejected, the dialog is closed and cleared, and both
\* queries await their refetch
C16_Witness ==
  /\ reviewRequest.status = "success"
  /\ requestStatus[1] = "REJECTED"
  /\ ~reviewModalOpen
  /\ selectedRequest = <<>>
  /\ reviewNotes = ""
  /\ {"org-requests", "me"} \subseteq invalidated
  /\ lastToast = "success: Organization request reviewed successfully"

\* C17: review controls are offered only for requests displayed as PENDING,
\* and no review is submitted for a request whose review has succeeded
C17_ReviewedOnce ==
  [][ (reviewRequest.status # "pending"
         /\ reviewRequest'.status = "pending") =>
        /\ selectedRequest[1].status = "PENDING"
        /\ requestStatus[reviewRequest'.variables[1].requestId] = "PENDING"
    ]_vars

\* --------------------------------------------------- mutations: properties

\* C14: at most one call of each mutation is in flight at any time, whatever
\* the user does: no sequence of user actions starts a second submission
\* before the first has settled
C14_OneCallInFlight ==
  \A m \in Mutations : pendingCalls[m] <= 1

\* what the pages show and hold apart from their mutations' own states:
\* the open dialogs, the form fields, the selected entities, the rows, the
\* selection and the invalidated queries
shownState ==
  <<editModalOpen, selectedOrg, editorForm, searchOrgs,
    inviteModalOpen, inviteEmail, inviteRole, members,
    reviewDialog, orgRequests, allOrgs, billing,
    orgName, pendingOrgName, duplicateConfirmOpen, inviteToken,
    orgId, localStorage, page, invalidated>>

\* C15: when a mutation fails, other than an organization creation with the
\* conflict status, an error toast is shown and nothing else changes: the
\* dialog stays as it is, the form fields and the selected entity are kept,
\* and no query is invalidated (the invite page also enables its button
\* again)
C15_FailureOnlyToasts ==
  [][ /\ (updateBilling.status = "pending"
            /\ updateBilling'.status = "error") =>
           /\ lastToast' = "error: Failed to update billing override"
           /\ UNCHANGED shownState
      /\ (createInvite.status = "pending"
            /\ createInvite'.status = "error") =>
           /\ lastToast' = "error: Failed to send invitation"
           /\ UNCHANGED shownState
      /\ (reviewRequest.status = "pending"
            /\ reviewRequest'.status = "error") =>
           /\ lastToast' = "error: Failed to review request"
           /\ UNCHANGED shownState
      /\ (updateRole.status = "pending" /\ updateRole'.status = "error") =>
           /\ lastToast' = "error: Failed to update role"
           /\ UNCHANGED shownState
      /\ (disableMember.status = "pending"
            /\ disableMember'.status = "error") =>
           /\ lastToast' = "error: Failed to disable member"
           /\ UNCHANGED shownState
      /\ (toggleStatus.status = "pending"
            /\ toggleStatus'.status = "error") =>
           /\ lastToast' = "error: Failed to toggle organization status"
           /\ UNCHANGED shownState
      /\ (checkout.status = "pending" /\ checkout'.status = "error") =>
           /\ lastToast' = "error: Failed to create checkout session"
           /\ UNCHANGED shownState
      /\ (portal = "pending" /\ portal' = "error") =>
           /\ lastToast' = "error: Failed to open billing portal"
           /\ UNCHANGED shownState
      /\ (createOrg.status = "pending" /\ createOrg'.status = "error"
            /\ createOrg'.error # 409) =>
           /\ lastToast' = "error: Failed to create organization"
           /\ UNCHANGED shownState
      /\ (createOrgRequest.status = "pending"
            /\ createOrgRequest'.status = "error") =>
           /\ lastToast' = "error: Failed to submit organization request"
           /\ UNCHANGED shownState
      /\ (acceptInviteCode = "pending" /\ acceptInviteCode' = "error") =>
           /\ lastToast' = "error: Failed to accept invite"
           /\ UNCHANGED shownState
      /\ (acceptInvite = "pending" /\ acceptInvite' = "error") =>
           /\ lastToast' = "error: Failed to accept invitation"
           /\ UNCHANGED shownState
           /\ ~accepting' ]_vars

\* C15 witness: a save of the billing-override dialog has failed; the
\* dialog is still open for the organization with the limit the user typed,
\* the error toast is up and no query is invalidated
C15_Witness ==
  /\ updateBilling.status = "error"
  /\ lastToast = "error: Failed to update billing override"
  /\ editModalOpen
  /\ selectedOrg = <<[id |-> 1, name |-> "Marina Bay"]>>
  /\ searchOrgs[1].billing_override_vessel_limit = 0
  /\ vesselLimit = <<"5">>
  /\ invalidated = {}

C27_ClosedDialogStaysCleared ==
  /\ ~importOpen => (file = <<>> /\ result = <<>>)
  /\ file = <<>> => result = <<>>

\* C28: whenever onImport resolves with a result R, the dialog's result is R
\* and onSuccess has been called exactly once, with R; the row-0 error
\* result is set only when onImport itself failed
C28_ResolvedResultIsShown ==
  [][ (lastOutcome' # <<>> /\ lastOutcome'[1] = "resolved") =>
        /\ result' = <<lastOutcome'[2]>>
        /\ onSuccessCalls' = <<lastOutcome'[2]>> ]_vars

\* C23: with two tabs on one local storage, nothing the other tab does
\* changes this tab's selection (a change of it is this tab's own mount-time
\* load, setter or reload), and a provider that mounts after a reload adopts
\* what a tab persisted last: the id of the last setter call of any tab, or
\* none if that call cleared the item
C23_TabsDivergeUntilReload ==
  [][ /\ OtherTabNext => orgId' = orgId
      /\ orgId' # orgId => (OrgProviderMount \/ setOrgId \/ Reload)
      /\ (~providerMounted /\ providerMounted' /\ lastSetOrgId # <<>>) =>
           orgId' = IF TruthyId(lastSetOrgId[1]) THEN lastSetOrgId[1]
                    ELSE Null ]_vars

\* C23 witness: this tab holds organization 1 and the other tab has selected
\* organization 12 since; the storage holds 12 and this tab still holds 1
C23_Witness ==
  /\ providerMounted /\ otherMounted
  /\ orgId = 1
  /\ otherOrgId = 12
  /\ lastSetOrgId = <<12>>
  /\ localStorage = <<<<"1", "2">>>>

\* C24: a component that is not below an OrgProvider gets an error thrown
\* by useOrg, never a default selection; below the provider useOrg returns
\* the current orgId and the setter
C24_UseOrgFailsFastOutsideProvider ==
  [][ consumed' # consumed =>
        LET c == consumed'[1] IN
        IF c.under
        THEN /\ ~c.got.threw
             /\ c.got.value.orgId = orgId'
             /\ c.got.value.setOrgId = "setOrgId"
        ELSE /\ c.got.threw
             /\ c.got.message = "useOrg must be used within OrgProvider" ]_vars

\* C24 witness: a provider holds organization 12, and a component outside
\* it has rendered: useOrg threw
C24_Witness ==
  /\ providerMounted
  /\ orgId = 12
  /\ consumed # <<>>
  /\ ~consumed[1].under
  /\ consumed[1].got.threw

\* the instant a submitted expiry stands for: the start of its minute
SubmittedInstant(x) == IF x = <<>> THEN Null ELSE 2 * x[1][1]

\* C25: a save from the editor whose fields are as handleEdit filled them
\* from the organization's row submits the row's override values: the same
\* enabled flag, the same vessel limit (0 and absent included), the same
\* expiry and the same reason
C25_UntouchedSaveSubmitsStoredValues ==
  [][ (updateBilling.status # "pending" /\ updateBilling'.status = "pending") =>
        LET v == updateBilling'.variables[1]
            o == searchOrgs[CHOOSE i \in 1..Len(searchOrgs) :
                              searchOrgs[i].id = v.orgId]
        IN  ( /\ overrideEnabled = o.billing_override_enabled
              /\ vesselLimit = VesselLimitField(o)
              /\ expiresAt = ExpiresAtField(o)
              /\ reason = ReasonField(o) ) =>
            /\ v.billing_override_enabled = o.billing_override_enabled
            /\ v.billing_override_vessel_limit =
                 o.billing_override_vessel_limit
            /\ SubmittedInstant(v.billing_override_expires_at) =
                 o.billing_override_expires_at
            /\ v.billing_override_reason = o.billing_override_reason ]_vars

\* C26: no text entered for an earlier request is carried into the review
\* of another one: when the dialog is opened for a request other than the
\* one it held, by whatever means it was closed, its notes are empty
C26_NotesNotCarriedOver ==
  [][ (~reviewModalOpen /\ reviewModalOpen'
         /\ selectedRequest' # selectedRequest) =>
        reviewNotes' = "" ]_vars

\* the organizations of the user's ACTIVE memberships
ActiveOrgIds ==
  { ActiveMemberships(meData)[i].org_id :
      i \in 1..Len(ActiveMemberships(meData)) }

\* C29: for a signed-in user with an ACTIVE membership the selected
\* organization eventually is, and from then on stays, the organization of
\* one of the ACTIVE memberships; a selection restored from local storage
\* that is not among them does not persist
C29_SelectionBecomesActive ==
  <>[](orgId \in ActiveOrgIds)

\* Header: the membership found among the active ones for the selection
currentOrg == FindMembership(ActiveMemberships(meData), orgId)

\* Header: the Admin link is rendered
HeaderAdminLink ==
  /\ isSignedIn
  /\ currentOrg # <<>>
  /\ currentOrg[1].role = "ADMIN"

\* C30: the billing page grants admin access (renders anything but the
\* "Admin access required" screen) exactly when the header shows the Admin
\* link, that is exactly when the user's membership in the selected
\* organization has role ADMIN and status ACTIVE
C30_HeaderAndBillingAgreeOnAdmin ==
  (page = "admin-billing" /\ isSignedIn) =>
    /\ view.class # "denied" <=> HeaderAdminLink
    /\ view.class # "denied" <=>
         \E i \in 1..Len(user.memberships) :
           /\ meData # <<>>
           /\ user.memberships[i].org_id = orgId
           /\ user.memberships[i].role = "ADMIN"
           /\ user.memberships[i].status = "ACTIVE"

====
